---- MODULE Spec2Model ----
(***************************************************************************)
(* YouTubeSubManager: the caption reconciliation engine.                   *)
(*                                                                         *)
(* The specifications share one set of variables:                          *)
(*   SpecApi  - direct calls of upload_caption / update_caption /          *)
(*              delete_caption (src/src/youtube_api.py), as the CSV batch  *)
(*              and the sync runs make them;                               *)
(*   SpecFH   - one run of file_handler.sync_project (subtitles.json,      *)
(*              many videos, lastSync based);                              *)
(*   SpecPH   - one run of project_handler.sync_project (status.json,      *)
(*              one video, allow_deletes / dry_run / quota confirmation).  *)
(*   SpecScan - file_handler.sync_project on new projects whose ids and    *)
(*              file names hold underscores;                               *)
(*   SpecCacheKey, SpecCache - the functions of src/src/cache.py;          *)
(*   SpecQuota - a session of increment_quota calls (src/src/quota.py);    *)
(*   SpecRuns - create_project followed by consecutive runs of            *)
(*              sync_project on the same project, of either handler;       *)
(*   SpecCli  - one run of main (src/src/main.py) up to its exit code;     *)
(*   SpecBatch - process_csv_batch (src/src/file_handler.py) on one file;  *)
(*   SpecLookup - list_captions / get_channel_videos called again within   *)
(*              the freshness window of the cache;                         *)
(*   SpecEdited - file_handler.sync_project on a subtitles.json whose      *)
(*              last_sync values were edited by hand;                      *)
(*   SpecLanguage - upload_caption / update_caption / the language         *)
(*              normalization on codes in every spelling;                  *)
(*   Spec     - any one of the three commands SpecApi, SpecFH, SpecPH.     *)
(*                                                                         *)
(* The translator / get_string arguments only carry log text and are left  *)
(* out.  YouTube itself is an external collaborator: it is modelled as the *)
(* list of caption tracks it holds plus, for every call, a fault that the  *)
(* service may or may not raise.                                            *)
(***************************************************************************)
EXTENDS Integers, Sequences, FiniteSets, TLC

(***************************************************************************)
(* Bounds of the model                                                     *)
(***************************************************************************)
MaxTime == 2        \* the wall clock runs over 0..MaxTime (hours)
MaxCalls == 1       \* direct API calls made in one SpecApi behaviour
MaxInserts == 4     \* caption ids the remote can hand out to captions.insert
MaxIncrements == 4  \* calls of increment_quota in one SpecQuota behaviour
MaxRuns == 2        \* runs of sync_project on one project in one SpecRuns behaviour
MaxFiles == 2       \* files on one smart-upload command line
MaxRows == 2        \* rows of the CSV file given to process_csv_batch

(***************************************************************************)
(* Values                                                                  *)
(***************************************************************************)
None == "None"      \* Python None / JSON null
NaN == "NaN"        \* the float nan pandas puts into an empty CSV cell
Null == [null |-> TRUE]     \* None where a dict or a response is expected

\* str.lower() on the language strings of the model
Lower(s) ==
    CASE s = "EN" -> "en"
      [] s = "es-US" -> "es-us"
      [] s = "ES" -> "es"
      [] s = "fr-FR" -> "fr-fr"
      [] s = "pt-BR" -> "pt-br"
      [] s = "XX" -> "xx"
      [] s = "Yes" -> "yes"
      [] s = "Y" -> "y"
      [] OTHER -> s

\* str.strip() on the strings of the model
Strip(s) ==
    CASE s = "  " -> ""
      [] s = " c1 " -> "c1"
      [] s = " en" -> "en"
      [] s = " update " -> "update"
      [] OTHER -> s

\* str.upper() on the strings of the model
Upper(s) ==
    CASE s = "update" -> "UPDATE"
      [] s = "delete" -> "DELETE"
      [] s = "skip" -> "SKIP"
      [] OTHER -> s

\* src/src/config.py REGIONAL_LANGUAGE_MAP, the entries the model's languages reach
REGIONAL_LANGUAGE_MAP ==
    ("en" :> "en") @@ ("es" :> "es-US") @@ ("es-us" :> "es-US") @@ ("fr" :> "fr-FR")
        @@ ("pt" :> "pt-BR") @@ ("pt-br" :> "pt-BR")

\* as normalize_language_code, but a regional code is mapped back to its base code
normalize_language_code_back_to_base(lang) ==
    LET lang_lower == Strip(Lower(lang))
        back == [REGIONAL_LANGUAGE_MAP EXCEPT !["es-us"] = "es", !["pt-br"] = "pt"]
    IN  IF lang_lower \in DOMAIN back THEN back[lang_lower] ELSE lang

normalize_language_code(lang) ==
    LET lang_lower == Strip(Lower(lang))
    IN  IF lang_lower \in DOMAIN REGIONAL_LANGUAGE_MAP
        THEN REGIONAL_LANGUAGE_MAP[lang_lower]
        ELSE lang

\* src/src/config.py validate_language_code: lang.lower() in valid_codes
validate_language_code(lang) ==
    \* the entries of valid_codes the model's languages reach
    LET valid_codes == {"en", "en-us", "es", "es-us", "fr", "fr-fr", "pt", "pt-br"}
    IN  Lower(lang) \in valid_codes

(***************************************************************************)
(* Quota meter (src/src/quota.py)                                          *)
(***************************************************************************)
QUOTA_COSTS ==
    ("channels.list" :> 1) @@ ("playlistItems.list" :> 1) @@
    ("captions.list" :> 50) @@ ("captions.insert" :> 400) @@
    ("captions.update" :> 450) @@ ("captions.delete" :> 50)

increment_quota_charging_unknown_names(usage, api_call_name) ==
    LET cost == IF api_call_name \in DOMAIN QUOTA_COSTS
                THEN QUOTA_COSTS[api_call_name] ELSE 1
    IN  IF cost > 0 THEN usage + cost ELSE usage

increment_quota(usage, api_call_name) ==
    LET cost == IF api_call_name \in DOMAIN QUOTA_COSTS
                THEN QUOTA_COSTS[api_call_name] ELSE 0
    IN  IF cost > 0 THEN usage + cost ELSE usage

(***************************************************************************)
(* Response cache (src/src/cache.py)                                       *)
(***************************************************************************)
CACHE_DURATION == 1     \* timedelta(hours=1), in clock units

\* rank of the keyword names under Python's string order
NameRank(n) == CASE n = "channel_id" -> 1 [] n = "part" -> 2 [] n = "video_id" -> 3 [] OTHER -> 4

RECURSIVE InsertSorted(_, _)
InsertSorted(item, s) ==
    IF s = <<>> THEN <<item>>
    ELSE IF NameRank(item[1]) <= NameRank(Head(s)[1]) THEN <<item>> \o s
    ELSE <<Head(s)>> \o InsertSorted(item, Tail(s))

\* sorted(kwargs.items()): the items in the order of their names
SortedItems_as_passed(kwargs) == kwargs

RECURSIVE SortedItems(_)
SortedItems(kwargs) ==
    IF kwargs = <<>> THEN <<>>
    ELSE InsertSorted(Head(kwargs), SortedItems(Tail(kwargs)))

\* the md5 digest is modelled by the pair it is computed from
generate_cache_key(function_name, kwargs) == <<function_name, SortedItems(kwargs)>>

ExceptionOf(form) ==
    CASE form = "unreadable" -> "IOError"
      [] form = "invalid_json" -> "JSONDecodeError"
      [] form \in {"no_timestamp", "no_data"} -> "KeyError"
      [] form = "bad_timestamp" -> "ValueError"
      [] form = "not_an_object" -> "TypeError"

\* line 45: except (json.JSONDecodeError, KeyError, IOError)
CaughtInGet == {"JSONDecodeError", "KeyError", "IOError"}

\* an exception that leaves get_from_cache
Uncaught(exception) == [exception |-> exception]

IsCorrupt(entry) == "corrupt" \in DOMAIN entry

\* as get_from_cache, but an entry is a hit whatever its age
get_from_cache_whatever_the_age(store, key, clock) ==
    IF key \notin DOMAIN store THEN Null
    ELSE IF IsCorrupt(store[key])
    THEN IF ExceptionOf(store[key].corrupt) \in CaughtInGet
         THEN Null ELSE Uncaught(ExceptionOf(store[key].corrupt))
    ELSE store[key].data

get_from_cache(store, key, clock) ==
    IF key \notin DOMAIN store THEN Null
    ELSE IF IsCorrupt(store[key])
    THEN IF ExceptionOf(store[key].corrupt) \in CaughtInGet
         THEN Null ELSE Uncaught(ExceptionOf(store[key].corrupt))
    ELSE IF clock - store[key].timestamp > CACHE_DURATION THEN Null
    ELSE store[key].data

\* lines 54-61, the file is written
save_to_cache(store, key, data, clock) ==
    [k \in DOMAIN store \cup {key} |->
        IF k = key THEN [timestamp |-> clock, data |-> data] ELSE store[k]]

save_to_cache_keeping_timestamp(store, key, data, clock, outcome) ==
    CASE outcome = "written" ->
            [k \in DOMAIN store \cup {key} |->
                IF k = key
                THEN [timestamp |-> IF key \in DOMAIN store /\ ~IsCorrupt(store[key])
                                    THEN store[key].timestamp ELSE clock,
                      data |-> data]
                ELSE store[k]]
      [] outcome = "open_failed" -> store
      [] outcome = "write_failed" ->
            [k \in DOMAIN store \cup {key} |->
                IF k = key THEN [corrupt |-> "invalid_json"] ELSE store[k]]

save_to_cache_or_fail(store, key, data, clock, outcome) ==
    CASE outcome = "written" -> save_to_cache(store, key, data, clock)
      [] outcome = "open_failed" -> store
      [] outcome = "write_failed" ->
            [k \in DOMAIN store \cup {key} |->
                IF k = key THEN [corrupt |-> "invalid_json"] ELSE store[k]]

(***************************************************************************)
(* State                                                                   *)
(***************************************************************************)
VARIABLES
    now,            \* wall clock
    remote,         \* YouTube: the caption tracks, oldest first
    inserted,       \* how many ids the remote has handed out
    QUOTA_USAGE,    \* quota.py _QUOTA_USAGE
    cache,          \* cache directory: key -> [timestamp, data]
    log,            \* history of the remote calls, cache hits and prompts of the
                    \* current call (SpecApi) or run (SpecFH, SpecPH)
    calls,          \* SpecApi: direct calls made so far
    last,           \* SpecApi: the last direct call, what it returned, and the
                    \* quota counter and remote captions it started from
    command,        \* what the process was started for
    pc,             \* SpecFH, SpecPH: where the run of sync_project stands
    done,           \* SpecFH, SpecPH: actions of the plan already attempted
    \* file_handler.sync_project
    subtitles_json,     \* projects/<name>/subtitles.json
    tree,               \* the .srt files under the project directory: path -> mtime
    project_data,       \* subtitles.json as loaded and mutated in memory
    local_files,        \* the scanner's mapping, in insertion order
    actions_to_perform, \* the plan
    before,             \* what the run read and scanned before it classified
    \* project_handler.sync_project
    status_json,        \* <project>/status.json
    subtitles_dir,      \* the names (without .srt) in <project>/subtitles
    allow_deletes,
    dry_run,
    to_upload,
    to_update,
    to_delete

apiVars == <<now, remote, inserted, QUOTA_USAGE, cache, log>>
csvVars == <<calls, last>>
fhVars == <<subtitles_json, tree, project_data, local_files, actions_to_perform, before>>
phVars == <<status_json, subtitles_dir, allow_deletes, dry_run, to_upload, to_update, to_delete>>
vars == <<apiVars, csvVars, command, pc, done, fhVars, phVars>>

\* the part of the state the API functions work on
Env == [remote |-> remote, inserted |-> inserted, quota |-> QUOTA_USAGE,
        cache |-> cache, log |-> log]

\* the same, with the history of the call that starts now empty
Env0 == [Env EXCEPT !.log = <<>>]

Ev(op, vid, lang, id, status, act) ==
    [op |-> op, vid |-> vid, lang |-> lang, id |-> id, status |-> status, act |-> act]

RemoteIds(rem) == {rem[i].id : i \in 1..Len(rem)}

\* answer of a call: the new environment, the exception status (0 = returned)
\* and the response
Ret(e, resp) == [e |-> e, raised |-> 0, resp |-> resp]
Raise(e, status) == [e |-> e, raised |-> status, resp |-> Null]

(***************************************************************************)
(* The remote service (googleapiclient, external): one operator per        *)
(* request .execute().  fault = TRUE: the service answers with an error    *)
(* other than 404.                                                         *)
(***************************************************************************)
RECURSIVE SelectVideo(_, _)
SelectVideo(rem, vid) ==
    IF rem = <<>> THEN <<>>
    ELSE IF Head(rem).videoId = vid
         THEN <<Head(rem)>> \o SelectVideo(Tail(rem), vid)
         ELSE SelectVideo(Tail(rem), vid)

RECURSIVE Without(_, _)
Without(rem, id) ==
    IF rem = <<>> THEN <<>>
    ELSE IF Head(rem).id = id THEN Without(Tail(rem), id)
         ELSE <<Head(rem)>> \o Without(Tail(rem), id)

captions_list_execute(e, vid, fault, act) ==
    IF fault
    THEN Raise([e EXCEPT !.log = Append(@, Ev("list", vid, None, None, 500, act))], 500)
    ELSE Ret([e EXCEPT !.log = Append(@, Ev("list", vid, None, None, 200, act))],
             [items |-> SelectVideo(e.remote, vid)])

captions_insert_execute(e, vid, lang, fault, act) ==
    \* caption ids the remote hands out, in order
    LET FreshIds == <<"n1", "n2", "n3", "n4", "n5", "n6">>
    IN
    IF fault \/ e.inserted >= MaxInserts
    THEN Raise([e EXCEPT !.log = Append(@, Ev("insert", vid, lang, None, 500, act))], 500)
    ELSE LET id == FreshIds[e.inserted + 1]
         IN  Ret([e EXCEPT !.log = Append(@, Ev("insert", vid, lang, id, 200, act)),
                           !.inserted = @ + 1,
                           !.remote = Append(@, [id |-> id, videoId |-> vid, language |-> lang])],
                 [id |-> id, lastUpdated |-> now])

captions_update_execute(e, id, fault, act) ==
    IF fault
    THEN Raise([e EXCEPT !.log = Append(@, Ev("update", None, None, id, 500, act))], 500)
    ELSE IF id \notin RemoteIds(e.remote)
    THEN Raise([e EXCEPT !.log = Append(@, Ev("update", None, None, id, 404, act))], 404)
    ELSE Ret([e EXCEPT !.log = Append(@, Ev("update", None, None, id, 200, act))],
             [id |-> id, lastUpdated |-> now])

captions_delete_execute(e, id, fault, act) ==
    IF fault
    THEN Raise([e EXCEPT !.log = Append(@, Ev("delete", None, None, id, 500, act))], 500)
    ELSE IF id \notin RemoteIds(e.remote)
    THEN Raise([e EXCEPT !.log = Append(@, Ev("delete", None, None, id, 404, act))], 404)
    ELSE Ret([e EXCEPT !.log = Append(@, Ev("delete", None, None, id, 200, act)),
                       !.remote = Without(@, id)],
             Null)

(***************************************************************************)
(* src/src/youtube_api.py                                                  *)
(***************************************************************************)
list_captions(e, video_id, fault, act) ==
    LET cache_key == generate_cache_key("list_captions", <<<<"video_id", video_id>>>>)
        cached_captions == get_from_cache(e.cache, cache_key, now)
    IN  IF cached_captions # Null
        THEN Ret([e EXCEPT !.log = Append(@, Ev("cache_hit", video_id, None, None, 200, act))],
                 cached_captions)
        ELSE LET r == captions_list_execute(e, video_id, fault, act)
             IN  IF r.raised # 0 THEN r
                 ELSE Ret([r.e EXCEPT !.quota = increment_quota(@, "captions.list"),
                                      !.cache = save_to_cache(@, cache_key, r.resp, now)],
                          r.resp)

\* as upload_caption, but a code that is not recognized is refused before the insert
upload_caption_refusing_unrecognized(e, video_id, language, fault, act) ==
    LET normalized_lang == normalize_language_code(language)
        r == captions_insert_execute(e, video_id, normalized_lang, fault, act)
    IN  IF ~validate_language_code(normalized_lang) THEN Raise(e, 400)
        ELSE IF r.raised # 0 THEN r
        ELSE Ret([r.e EXCEPT !.quota = increment_quota(@, "captions.insert")], r.resp)

upload_caption(e, video_id, language, fault, act) ==
    LET normalized_lang == normalize_language_code(language)
        r == captions_insert_execute(e, video_id, normalized_lang, fault, act)
    IN  IF r.raised # 0 THEN r
        ELSE Ret([r.e EXCEPT !.quota = increment_quota(@, "captions.insert")], r.resp)

\* pd.notna(caption_id) and str(caption_id).strip()
is_valid_caption_id(caption_id) ==
    caption_id \notin {None, NaN} /\ Strip(caption_id) # ""

\* next((item for item in items if item.language.lower() == normalized_lang.lower()), None)
RECURSIVE FirstByLanguage_case_sensitive(_, _)
FirstByLanguage_case_sensitive(items, normalized_lang) ==
    IF items = <<>> THEN Null
    ELSE IF Head(items).language = normalized_lang THEN Head(items)
    ELSE FirstByLanguage_case_sensitive(Tail(items), normalized_lang)

RECURSIVE FirstByLanguage(_, _)
FirstByLanguage(items, normalized_lang) ==
    IF items = <<>> THEN Null
    ELSE IF Lower(Head(items).language) = Lower(normalized_lang) THEN Head(items)
    ELSE FirstByLanguage(Tail(items), normalized_lang)

\* as update_by_language, but a search without a match ends the call
update_by_language_without_upload(e, video_id, normalized_lang, o, act) ==
    LET l == list_captions(e, video_id, o.list, act)
    IN  IF l.raised # 0
        THEN upload_caption(l.e, video_id, normalized_lang, o.insert, act)
        ELSE LET caption_to_update == FirstByLanguage(l.resp.items, normalized_lang)
             IN  IF caption_to_update # Null
                 THEN LET u == captions_update_execute(l.e, caption_to_update.id, o.second, act)
                      IN  IF u.raised = 0
                          THEN Ret([u.e EXCEPT !.quota = increment_quota(@, "captions.update")],
                                   u.resp)
                          ELSE upload_caption(u.e, video_id, normalized_lang, o.insert, act)
                 ELSE Ret(l.e, Null)

\* as update_by_language, but the upload follows the update that succeeded too
update_by_language_uploading_anyway(e, video_id, normalized_lang, o, act) ==
    LET l == list_captions(e, video_id, o.list, act)
    IN  IF l.raised # 0
        THEN upload_caption(l.e, video_id, normalized_lang, o.insert, act)
        ELSE LET caption_to_update == FirstByLanguage(l.resp.items, normalized_lang)
             IN  IF caption_to_update # Null
                 THEN LET u == captions_update_execute(l.e, caption_to_update.id, o.second, act)
                      IN  IF u.raised = 0
                          THEN upload_caption(
                                   [u.e EXCEPT !.quota = increment_quota(@, "captions.update")],
                                   video_id, normalized_lang, o.insert, act)
                          ELSE upload_caption(u.e, video_id, normalized_lang, o.insert, act)
                 ELSE upload_caption(l.e, video_id, normalized_lang, o.insert, act)

\* as update_by_language, but the error of the listing is the caller's
update_by_language_raising_list_error(e, video_id, normalized_lang, o, act) ==
    LET l == list_captions(e, video_id, o.list, act)
    IN  IF l.raised # 0
        THEN l
        ELSE LET caption_to_update == FirstByLanguage(l.resp.items, normalized_lang)
             IN  IF caption_to_update # Null
                 THEN LET u == captions_update_execute(l.e, caption_to_update.id, o.second, act)
                      IN  IF u.raised = 0
                          THEN Ret([u.e EXCEPT !.quota = increment_quota(@, "captions.update")],
                                   u.resp)
                          ELSE upload_caption(u.e, video_id, normalized_lang, o.insert, act)
                 ELSE upload_caption(l.e, video_id, normalized_lang, o.insert, act)

\* the by-language search and what follows it (youtube_api.py lines 121-145)
update_by_language(e, video_id, normalized_lang, o, act) ==
    LET l == list_captions(e, video_id, o.list, act)
    IN  IF l.raised # 0
        THEN upload_caption(l.e, video_id, normalized_lang, o.insert, act)
        ELSE LET caption_to_update == FirstByLanguage(l.resp.items, normalized_lang)
             IN  IF caption_to_update # Null
                 THEN LET u == captions_update_execute(l.e, caption_to_update.id, o.second, act)
                      IN  IF u.raised = 0
                          THEN Ret([u.e EXCEPT !.quota = increment_quota(@, "captions.update")],
                                   u.resp)
                          ELSE upload_caption(u.e, video_id, normalized_lang, o.insert, act)
                 ELSE upload_caption(l.e, video_id, normalized_lang, o.insert, act)

\* as update_caption, but every failure of the direct update falls back
update_caption_any_error_falls_back(e, video_id, language, caption_id, o, act) ==
    LET normalized_lang == normalize_language_code(language)
    IN  IF is_valid_caption_id(caption_id)
        THEN LET str_caption_id == Strip(caption_id)
                 d == captions_update_execute(e, str_caption_id, o.direct, act)
             IN  IF d.raised = 0
                 THEN Ret([d.e EXCEPT !.quota = increment_quota(@, "captions.update")], d.resp)
                 ELSE update_by_language(d.e, video_id, normalized_lang, o, act)
        ELSE update_by_language(e, video_id, normalized_lang, o, act)

update_caption(e, video_id, language, caption_id, o, act) ==
    LET normalized_lang == normalize_language_code(language)
    IN  IF is_valid_caption_id(caption_id)
        THEN LET str_caption_id == Strip(caption_id)
                 d == captions_update_execute(e, str_caption_id, o.direct, act)
             IN  IF d.raised = 0
                 THEN Ret([d.e EXCEPT !.quota = increment_quota(@, "captions.update")], d.resp)
                 ELSE IF d.raised = 404
                 THEN update_by_language(d.e, video_id, normalized_lang, o, act)
                 ELSE d
        ELSE update_by_language(e, video_id, normalized_lang, o, act)

delete_caption(e, caption_id, fault, act) ==
    LET r == captions_delete_execute(e, caption_id, fault, act)
    IN  IF r.raised # 0 THEN r
        ELSE Ret([r.e EXCEPT !.quota = increment_quota(@, "captions.delete")], Null)

\* the faults the remote may raise during one update_caption
Oracles == [direct : BOOLEAN, list : BOOLEAN, second : BOOLEAN, insert : BOOLEAN]

(***************************************************************************)
(* SpecApi: direct calls, as process_csv_batch and the sync runs make them *)
(***************************************************************************)
ApiVideos == {"v1"}
ApiLanguages == {"EN", "es"}
CaptionIdInputs == {None, NaN, "", "  ", " c1 ", "c2"}

\* caption tracks the remote may hold before the first call
Track(id, lang) == [id |-> id, videoId |-> "v1", language |-> lang]
InitRemotes ==
    { <<>>,
      <<Track("c1", "en")>>,
      <<Track("c1", "EN")>>,
      <<Track("c1", "es-US")>>,
      <<Track("c1", "es-us"), Track("c2", "en")>>,
      <<Track("c1", "fr-FR"), Track("c2", "es-US")>> }

NoCall == [fn |-> "none", video_id |-> None, language |-> None, caption_id |-> None,
           raised |-> 0, resp |-> Null, quota_before |-> 0, remote_before |-> <<>>]

\* no project is being synchronised
NoSyncRun ==
    /\ pc = "idle" /\ done = 0
    /\ subtitles_json = <<>> /\ tree = <<>> /\ project_data = <<>>
    /\ local_files = <<>> /\ actions_to_perform = <<>> /\ before = <<>>
    /\ status_json = <<>> /\ subtitles_dir = {}
    /\ allow_deletes = FALSE /\ dry_run = FALSE
    /\ to_upload = <<>> /\ to_update = <<>> /\ to_delete = <<>>

InitApi ==
    \* the cache directory outlives the process: it may hold the listing an
    \* earlier list_captions("v1") stored, which the remote may have left behind
    LET InitCaches ==
            {<<>>} \cup
            { save_to_cache(<<>>, generate_cache_key("list_captions", <<<<"video_id", "v1">>>>),
                            [items |-> r], 0) : r \in InitRemotes }
    IN
    /\ command = "process"
    /\ now = 0
    /\ remote \in InitRemotes
    /\ inserted = 0
    /\ QUOTA_USAGE = 0
    /\ cache \in InitCaches
    /\ log = <<>>
    /\ calls = 0
    /\ last = NoCall
    /\ NoSyncRun

Commit(r) ==
    /\ remote' = r.e.remote
    /\ inserted' = r.e.inserted
    /\ QUOTA_USAGE' = r.e.quota
    /\ cache' = r.e.cache
    /\ log' = r.e.log

ApiUpload(video_id, language) ==
    /\ command = "process"
    /\ calls < MaxCalls
    /\ \E fault \in BOOLEAN :
          LET r == upload_caption(Env0, video_id, language, fault, calls + 1)
          IN  /\ Commit(r)
              /\ last' = [fn |-> "upload", video_id |-> video_id, language |-> language,
                          caption_id |-> None, raised |-> r.raised, resp |-> r.resp,
                          quota_before |-> QUOTA_USAGE, remote_before |-> remote]
    /\ calls' = calls + 1
    /\ UNCHANGED <<now, command, pc, done, fhVars, phVars>>

ApiUpdate(video_id, language, caption_id) ==
    /\ command = "process"
    /\ calls < MaxCalls
    /\ \E o \in Oracles :
          LET r == update_caption(Env0, video_id, language, caption_id, o, calls + 1)
          IN  /\ Commit(r)
              /\ last' = [fn |-> "update", video_id |-> video_id, language |-> language,
                          caption_id |-> caption_id, raised |-> r.raised, resp |-> r.resp,
                          quota_before |-> QUOTA_USAGE, remote_before |-> remote]
    /\ calls' = calls + 1
    /\ UNCHANGED <<now, command, pc, done, fhVars, phVars>>

ApiDelete(caption_id) ==
    /\ command = "process"
    /\ calls < MaxCalls
    /\ \E fault \in BOOLEAN :
          LET r == delete_caption(Env0, caption_id, fault, calls + 1)
          IN  /\ Commit(r)
              /\ last' = [fn |-> "delete", video_id |-> None, language |-> None,
                          caption_id |-> caption_id, raised |-> r.raised, resp |-> r.resp,
                          quota_before |-> QUOTA_USAGE, remote_before |-> remote]
    /\ calls' = calls + 1
    /\ UNCHANGED <<now, command, pc, done, fhVars, phVars>>

Tick ==
    /\ now < MaxTime
    /\ now' = now + 1
    /\ UNCHANGED <<remote, inserted, QUOTA_USAGE, cache, log, csvVars, command, pc, done, fhVars, phVars>>

NextApi ==
    \/ \E v \in ApiVideos, l \in ApiLanguages : ApiUpload(v, l)
    \/ \E v \in ApiVideos, l \in ApiLanguages, c \in CaptionIdInputs : ApiUpdate(v, l, c)
    \/ \E c \in {"c1", "c2", "n1"} : ApiDelete(c)
    \/ Tick

SpecApi == InitApi /\ [][NextApi]_vars

(***************************************************************************)
(* src/src/file_handler.py sync_project                                    *)
(*                                                                         *)
(* A path is [dir, stem]: dir is the name of the directory the file is in  *)
(* (ROOT for the project directory itself), stem the file name without     *)
(* ".srt", cut at its underscores.                                         *)
(***************************************************************************)
ROOT == ""
ProjectName == "my_project"     \* os.path.basename(project_path)
NoTime == -1                    \* last_sync / last_updated: None
DatetimeMin == -2               \* datetime.min, before every time stamp
NaiveTime == -3                 \* last_sync edited to a time without UTC offset
MalformedTime == -4             \* last_sync edited to a string that is no ISO time

RECURSIVE Join(_)
Join(tokens) ==
    IF Len(tokens) = 1 THEN tokens[1]
    ELSE tokens[1] \o "_" \o Join(Tail(tokens))

\* a Python dict with tuple keys, as the sequence of its items
RECURSIVE DictHas(_, _)
DictHas(d, key) ==
    IF d = <<>> THEN FALSE
    ELSE Head(d).key = key \/ DictHas(Tail(d), key)

RECURSIVE DictGet(_, _)
DictGet(d, key) ==
    IF Head(d).key = key THEN Head(d).value ELSE DictGet(Tail(d), key)

RECURSIVE DictSet(_, _, _)
DictSet(d, key, value) ==
    IF d = <<>> THEN <<[key |-> key, value |-> value]>>
    ELSE IF Head(d).key = key THEN <<[key |-> key, value |-> value]>> \o Tail(d)
    ELSE <<Head(d)>> \o DictSet(Tail(d), key, value)

RECURSIVE DictPop(_, _)
DictPop(d, key) ==
    IF d = <<>> THEN <<>>
    ELSE IF Head(d).key = key THEN Tail(d)
    ELSE <<Head(d)>> \o DictPop(Tail(d), key)

\* os.walk(project_path): the files of the project directory first, then
\* those of the directories below it, one directory after the other
Perms(S) == {f \in [1..Cardinality(S) -> S] : \A a, b \in 1..Cardinality(S) : a # b => f[a] # f[b]}

\* as ScanFiles, but a nested file does not replace an entry already found
RECURSIVE ScanFiles_first_found_wins(_, _, _)
ScanFiles_first_found_wins(walk, pd, lf) ==
    IF walk = <<>> THEN lf
    ELSE LET full_path == Head(walk)
             parent_dir == IF full_path.dir = ROOT THEN ProjectName ELSE full_path.dir
         IN  IF parent_dir \in DOMAIN pd
             THEN IF DictHas(lf, <<parent_dir, Join(full_path.stem)>>)
                  THEN ScanFiles_first_found_wins(Tail(walk), pd, lf)
                  ELSE ScanFiles_first_found_wins(Tail(walk), pd,
                            DictSet(lf, <<parent_dir, Join(full_path.stem)>>, full_path))
             ELSE IF full_path.dir = ROOT /\ Len(full_path.stem) >= 2
             THEN LET video_id == full_path.stem[1]
                      lang == Join(Tail(full_path.stem))
                  IN  IF video_id \in DOMAIN pd /\ ~DictHas(lf, <<video_id, lang>>)
                      THEN ScanFiles_first_found_wins(Tail(walk), pd,
                                DictSet(lf, <<video_id, lang>>, full_path))
                      ELSE ScanFiles_first_found_wins(Tail(walk), pd, lf)
             ELSE ScanFiles_first_found_wins(Tail(walk), pd, lf)

\* lines 174-204: the scan
RECURSIVE ScanFiles(_, _, _)
ScanFiles(walk, pd, lf) ==
    IF walk = <<>> THEN lf
    ELSE LET full_path == Head(walk)
             parent_dir == IF full_path.dir = ROOT THEN ProjectName ELSE full_path.dir
         IN  IF parent_dir \in DOMAIN pd
             THEN ScanFiles(Tail(walk), pd,
                            DictSet(lf, <<parent_dir, Join(full_path.stem)>>, full_path))
             ELSE IF full_path.dir = ROOT /\ Len(full_path.stem) >= 2
             THEN LET video_id == full_path.stem[1]
                      lang == Join(Tail(full_path.stem))
                  IN  IF video_id \in DOMAIN pd /\ ~DictHas(lf, <<video_id, lang>>)
                      THEN ScanFiles(Tail(walk), pd, DictSet(lf, <<video_id, lang>>, full_path))
                      ELSE ScanFiles(Tail(walk), pd, lf)
             ELSE ScanFiles(Tail(walk), pd, lf)

Action(action, video_id, lang) == [action |-> action, video_id |-> video_id, lang |-> lang]

SetSub(pd, video_id, lang, sub_info) ==
    [pd EXCEPT ![video_id].subtitles =
        [l \in DOMAIN @ \cup {lang} |-> IF l = lang THEN sub_info ELSE @[l]]]

\* lines 214-215
LastSyncTime_ignored(sub_info) == DatetimeMin

LastSyncTime(sub_info) ==
    IF sub_info.last_sync # NoTime THEN sub_info.last_sync ELSE DatetimeMin

\* line 217: if local_mod_time > last_sync_time
IsModified_a_tick_late(local_mod_time, last_sync_time) == local_mod_time > last_sync_time + 1

IsModified(local_mod_time, last_sync_time) == local_mod_time > last_sync_time

\* lines 206-224: the records of subtitles.json, in the order `records` of the file
RECURSIVE ClassifyRecords_keeping_found_files(_, _, _)
ClassifyRecords_keeping_found_files(records, st, mtimes) ==
    IF records = <<>> THEN st
    ELSE LET video_id == Head(records)[1]
             lang == Head(records)[2]
             file_key == <<video_id, lang>>
             sub_info == st.pd[video_id].subtitles[lang]
         IN  IF DictHas(st.lf, file_key)
             THEN LET local_path == DictGet(st.lf, file_key)
                      found == [sub_info EXCEPT !.local_path = local_path]
                  IN  IF IsModified(mtimes[local_path], LastSyncTime(sub_info))
                      THEN ClassifyRecords_keeping_found_files(Tail(records),
                              [pd |-> SetSub(st.pd, video_id, lang, [found EXCEPT !.status = "modified"]),
                               lf |-> st.lf,
                               acts |-> Append(st.acts, Action("update", video_id, lang))],
                              mtimes)
                      ELSE ClassifyRecords_keeping_found_files(Tail(records),
                              [pd |-> SetSub(st.pd, video_id, lang, [found EXCEPT !.status = "synced"]),
                               lf |-> st.lf,
                               acts |-> st.acts],
                              mtimes)
             ELSE ClassifyRecords_keeping_found_files(Tail(records),
                      [pd |-> SetSub(st.pd, video_id, lang, [sub_info EXCEPT !.status = "deleted"]),
                       lf |-> st.lf,
                       acts |-> Append(st.acts, Action("delete", video_id, lang))],
                      mtimes)

RECURSIVE ClassifyRecords(_, _, _)
ClassifyRecords(records, st, mtimes) ==
    IF records = <<>> THEN st
    ELSE LET video_id == Head(records)[1]
             lang == Head(records)[2]
             file_key == <<video_id, lang>>
             sub_info == st.pd[video_id].subtitles[lang]
         IN  IF DictHas(st.lf, file_key)
             THEN LET local_path == DictGet(st.lf, file_key)
                      found == [sub_info EXCEPT !.local_path = local_path]
                  IN  IF IsModified(mtimes[local_path], LastSyncTime(sub_info))
                      THEN ClassifyRecords(Tail(records),
                              [pd |-> SetSub(st.pd, video_id, lang, [found EXCEPT !.status = "modified"]),
                               lf |-> DictPop(st.lf, file_key),
                               acts |-> Append(st.acts, Action("update", video_id, lang))],
                              mtimes)
                      ELSE ClassifyRecords(Tail(records),
                              [pd |-> SetSub(st.pd, video_id, lang, [found EXCEPT !.status = "synced"]),
                               lf |-> DictPop(st.lf, file_key),
                               acts |-> st.acts],
                              mtimes)
             ELSE ClassifyRecords(Tail(records),
                      [pd |-> SetSub(st.pd, video_id, lang, [sub_info EXCEPT !.status = "deleted"]),
                       lf |-> st.lf,
                       acts |-> Append(st.acts, Action("delete", video_id, lang))],
                      mtimes)

\* lines 226-230: the local files no record claimed
RECURSIVE ClassifyNew_without_action(_, _)
ClassifyNew_without_action(rest, st) ==
    IF rest = <<>> THEN st
    ELSE LET video_id == Head(rest).key[1]
             lang == Head(rest).key[2]
             sub_info == [caption_id |-> None, local_path |-> Head(rest).value,
                          status |-> "new", last_sync |-> NoTime, last_updated |-> NoTime]
         IN  IF video_id \in DOMAIN st.pd
             THEN ClassifyNew_without_action(Tail(rest),
                      [st EXCEPT !.pd = SetSub(@, video_id, lang, sub_info)])
             ELSE ClassifyNew_without_action(Tail(rest), st)

RECURSIVE ClassifyNew(_, _)
ClassifyNew(rest, st) ==
    IF rest = <<>> THEN st
    ELSE LET video_id == Head(rest).key[1]
             lang == Head(rest).key[2]
             sub_info == [caption_id |-> None, local_path |-> Head(rest).value,
                          status |-> "new", last_sync |-> NoTime, last_updated |-> NoTime]
         IN  IF video_id \in DOMAIN st.pd
             THEN ClassifyNew(Tail(rest),
                      [st EXCEPT !.pd = SetSub(@, video_id, lang, sub_info),
                                 !.acts = Append(@, Action("upload", video_id, lang))])
             ELSE ClassifyNew(Tail(rest), st)

RecordKeys(pd) == UNION {{<<v, l>> : l \in DOMAIN pd[v].subtitles} : v \in DOMAIN pd}

ErrorStatus(code) == IF code = 404 THEN "error: 404" ELSE "error: 500"

\* lines 214-217, outside any try: datetime.fromisoformat raises ValueError on a
\* string that is no ISO time, and comparing the aware local_mod_time with a
\* naive last_sync_time raises TypeError.  Both lines run only for a record
\* whose file was found; the first such record in the order of the file decides.
RECURSIVE ClassifyRaises(_, _, _)
ClassifyRaises(records, pd, lf) ==
    IF records = <<>> THEN "none"
    ELSE LET sub_info == pd[Head(records)[1]].subtitles[Head(records)[2]]
         IN  IF DictHas(lf, Head(records)) /\ sub_info.last_sync = MalformedTime
             THEN "ValueError"
             ELSE IF DictHas(lf, Head(records)) /\ sub_info.last_sync = NaiveTime
             THEN "TypeError"
             ELSE ClassifyRaises(Tail(records), pd, lf)

\* lines 164-230: load subtitles.json, scan, classify
FHPlan ==
    \* json.load keeps the order of the file: the records of one video stay together
    LET RecordOrders(pd) ==
            {r \in Perms(RecordKeys(pd)) :
                \A a, b, c \in 1..Len(r) :
                    (a < b /\ b < c /\ r[a][1] = r[c][1]) => r[b][1] = r[a][1]}
    IN
    LET WalkOrders(paths) ==
            {w \in Perms(paths) :
                \A a, b, c \in 1..Len(w) :
                    /\ (a < b /\ w[b].dir = ROOT) => w[a].dir = ROOT
                    /\ (a < b /\ b < c /\ w[a].dir = w[c].dir) => w[b].dir = w[a].dir}
    IN
    /\ command = "sync"
    /\ pc = "idle"
    /\ \E walk \in WalkOrders(DOMAIN tree), records \in RecordOrders(subtitles_json) :
          LET scanned == ScanFiles(walk, subtitles_json, <<>>)
              c == ClassifyRecords(records,
                      [pd |-> subtitles_json, lf |-> scanned, acts |-> <<>>], tree)
              st == ClassifyNew(c.lf, c)
              raised == ClassifyRaises(records, subtitles_json, scanned)
          IN  IF raised # "none"
              THEN /\ pc' = "raised"
                   /\ before' = [project_data |-> subtitles_json, local_files |-> scanned,
                                  remote |-> remote, quota |-> QUOTA_USAGE, raised |-> raised]
                   /\ UNCHANGED <<project_data, local_files, actions_to_perform>>
              ELSE /\ pc' = "exec"
                   /\ project_data' = st.pd
                   /\ local_files' = st.lf
                   /\ actions_to_perform' = st.acts
                   /\ before' = [project_data |-> subtitles_json, local_files |-> scanned,
                                  remote |-> remote, quota |-> QUOTA_USAGE]
    /\ done' = 0
    /\ log' = <<>>
    /\ UNCHANGED <<now, remote, inserted, QUOTA_USAGE, cache, csvVars, command, subtitles_json,
                   tree, phVars>>

\* lines 254-256: the record of an action that raised
Failed_marked_synced(sub_info, code) == [sub_info EXCEPT !.status = "synced", !.last_sync = now]

Failed(sub_info, code) == [sub_info EXCEPT !.status = ErrorStatus(code)]

\* lines 232-256: one action of the plan, inside its try / except Exception
FHExec ==
    LET DelSub(pd, video_id, lang) ==
            [pd EXCEPT ![video_id].subtitles = [l \in DOMAIN @ \ {lang} |-> @[l]]]
    IN
    /\ command = "sync"
    /\ pc = "exec"
    /\ done < Len(actions_to_perform)
    /\ LET a == actions_to_perform[done + 1]
           sub_info == project_data[a.video_id].subtitles[a.lang]
       IN  \/ /\ a.action = "upload"
              /\ \E fault \in BOOLEAN :
                    LET r == upload_caption(Env, a.video_id, a.lang, fault, done + 1)
                    IN  /\ Commit(r)
                        /\ project_data' =
                              IF r.raised = 0
                              THEN SetSub(project_data, a.video_id, a.lang,
                                      [sub_info EXCEPT !.caption_id = r.resp.id,
                                                       !.status = "synced",
                                                       !.last_sync = now,
                                                       !.last_updated = r.resp.lastUpdated])
                              ELSE SetSub(project_data, a.video_id, a.lang,
                                      Failed(sub_info, r.raised))
           \/ /\ a.action = "update"
              /\ \E o \in Oracles :
                    LET r == update_caption(Env, a.video_id, a.lang, sub_info.caption_id, o, done + 1)
                    IN  /\ Commit(r)
                        /\ project_data' =
                              IF r.raised = 0
                              THEN SetSub(project_data, a.video_id, a.lang,
                                      [sub_info EXCEPT !.status = "synced",
                                                       !.last_sync = now,
                                                       !.last_updated = r.resp.lastUpdated])
                              ELSE SetSub(project_data, a.video_id, a.lang,
                                      Failed(sub_info, r.raised))
           \/ /\ a.action = "delete"
              /\ \E fault \in BOOLEAN :
                    LET r == delete_caption(Env, sub_info.caption_id, fault, done + 1)
                    IN  /\ Commit(r)
                        /\ project_data' =
                              IF r.raised = 0
                              THEN DelSub(project_data, a.video_id, a.lang)
                              ELSE SetSub(project_data, a.video_id, a.lang,
                                      Failed(sub_info, r.raised))
    /\ done' = done + 1
    /\ UNCHANGED <<now, csvVars, command, pc, subtitles_json, tree, local_files,
                   actions_to_perform, before, phVars>>

\* as FHSave, but a run whose actions all failed leaves the file as it was
FHSave_unless_every_action_failed ==
    /\ command = "sync"
    /\ pc = "exec"
    /\ done = Len(actions_to_perform)
    /\ subtitles_json' =
          IF /\ actions_to_perform # <<>>
             /\ \A k \in 1..Len(actions_to_perform) :
                   LET a == actions_to_perform[k]
                   IN  /\ a.lang \in DOMAIN project_data[a.video_id].subtitles
                       /\ project_data[a.video_id].subtitles[a.lang].status
                              \in {ErrorStatus(404), ErrorStatus(500)}
          THEN subtitles_json
          ELSE project_data
    /\ pc' = "done"
    /\ UNCHANGED <<apiVars, csvVars, command, done, tree, project_data, local_files,
                   actions_to_perform, before, phVars>>

\* lines 258-260: json.dump(project_data)
FHSave ==
    /\ command = "sync"
    /\ pc = "exec"
    /\ done = Len(actions_to_perform)
    /\ subtitles_json' = project_data
    /\ pc' = "done"
    /\ UNCHANGED <<apiVars, csvVars, command, done, tree, project_data, local_files,
                   actions_to_perform, before, phVars>>

\* the projects a run may find
KnownVideos == {"v1"}

CaptionIdOf(lang) == IF lang = "en" THEN "c1" ELSE "c2"

Record(caption_id, last_sync) ==
    LET NoPath == [dir |-> ROOT, stem |-> <<>>]     \* "local_path": ""
    IN
    [caption_id |-> caption_id, local_path |-> NoPath, status |-> "synced",
     last_sync |-> last_sync, last_updated |-> NoTime]
RecordsOf(lang) ==
    LET LastSyncs == {NoTime, 1}
    IN  {Record(c, t) : c \in {None, CaptionIdOf(lang)}, t \in LastSyncs}

NestedEn == [dir |-> "v1", stem |-> <<"en">>]
NestedEs == [dir |-> "v1", stem |-> <<"es">>]
FlatEn == [dir |-> ROOT, stem |-> <<"v1", "en">>]

SyncRemotes ==
    { <<>>,
      <<Track("c1", "en")>>,
      <<Track("c1", "en"), Track("c2", "es-US")>> }

InitFH ==
    LET Trees ==
            LET Mtimes(path) == IF path \in {NestedEn, NestedEs} THEN {1, 2} ELSE {2}
            IN
            LET FlatUnknown == [dir |-> ROOT, stem |-> <<"v9", "en">>]
            IN
            UNION { {t \in [D -> {1, 2}] : \A p \in D : t[p] \in Mtimes(p)} :
                    D \in SUBSET {NestedEn, NestedEs, FlatEn, FlatUnknown} }
    IN
    LET SubtitleMaps ==
            LET RecordLanguages == {"en", "es"}
            IN
            UNION { {f \in [D -> UNION {RecordsOf(l) : l \in D}] : \A l \in D : f[l] \in RecordsOf(l)} :
                    D \in SUBSET RecordLanguages }
    IN
    /\ command = "sync"
    /\ now = 1
    /\ remote \in SyncRemotes
    /\ inserted = 0
    /\ QUOTA_USAGE = 0
    /\ cache = <<>>
    /\ log = <<>>
    /\ calls = 0 /\ last = NoCall
    /\ pc = "idle" /\ done = 0
    /\ subtitles_json \in {[v \in KnownVideos |-> [subtitles |-> m]] : m \in SubtitleMaps}
    /\ tree \in Trees
    /\ project_data = <<>> /\ local_files = <<>> /\ actions_to_perform = <<>>
    /\ before = <<>>
    /\ status_json = <<>> /\ subtitles_dir = {}
    /\ allow_deletes = FALSE /\ dry_run = FALSE
    /\ to_upload = <<>> /\ to_update = <<>> /\ to_delete = <<>>

NextFH == FHPlan \/ FHExec \/ FHSave \/ Tick

SpecFH == InitFH /\ [][NextFH]_vars

(***************************************************************************)
(* SpecEdited: file_handler.sync_project on a subtitles.json whose          *)
(* last_sync values were written by hand                                    *)
(***************************************************************************)
InitEdited ==
    LET EditedLastSyncs == {NoTime, 1, NaiveTime, MalformedTime}
    IN
    /\ command = "sync"
    /\ now = 1
    /\ remote \in SyncRemotes
    /\ inserted = 0
    /\ QUOTA_USAGE = 0
    /\ cache = <<>>
    /\ log = <<>>
    /\ calls = 0 /\ last = NoCall
    /\ pc = "idle" /\ done = 0
    /\ subtitles_json \in
          {[v \in KnownVideos |-> [subtitles |-> m]] :
              m \in {<<>>} \cup {[l \in {"en"} |-> Record("c1", t)] : t \in EditedLastSyncs}
                     \cup {("en" :> Record("c1", t)) @@ ("es" :> Record("c2", u)) :
                              t, u \in EditedLastSyncs}}
    /\ tree \in UNION {[D -> {2}] : D \in SUBSET {NestedEn, NestedEs, FlatEn}}
    /\ project_data = <<>> /\ local_files = <<>> /\ actions_to_perform = <<>>
    /\ before = <<>>
    /\ status_json = <<>> /\ subtitles_dir = {}
    /\ allow_deletes = FALSE /\ dry_run = FALSE
    /\ to_upload = <<>> /\ to_update = <<>> /\ to_delete = <<>>

SpecEdited == InitEdited /\ [][NextFH]_vars

(***************************************************************************)
(* SpecScan: file_handler.sync_project on freshly created projects (no     *)
(* caption recorded yet) whose video ids and file names hold underscores   *)
(***************************************************************************)

InitScan ==
    LET ScanPaths ==
            LET FlatNoUnderscore == [dir |-> ROOT, stem |-> <<"notes">>]
            IN
            LET FlatPtBr == [dir |-> ROOT, stem |-> <<"v1", "pt", "BR">>]
            IN
            LET FlatUnderscoreEn == [dir |-> ROOT, stem |-> <<"a", "b", "en">>]
            IN
            LET NestedUnderscoreEn == [dir |-> "a_b", stem |-> <<"en">>]
            IN  {NestedEn, FlatEn, NestedUnderscoreEn, FlatUnderscoreEn, FlatPtBr, FlatNoUnderscore}
    IN
    LET ScanVideos == {"v1", "a_b"}
    IN
    /\ command = "sync"
    /\ now = 1
    /\ remote = <<>>
    /\ inserted = 0
    /\ QUOTA_USAGE = 0
    /\ cache = <<>>
    /\ log = <<>>
    /\ calls = 0 /\ last = NoCall
    /\ pc = "idle" /\ done = 0
    /\ subtitles_json \in {[v \in D |-> [subtitles |-> <<>>]] : D \in (SUBSET ScanVideos) \ {{}}}
    /\ tree \in UNION {[D -> {2}] : D \in SUBSET ScanPaths}
    /\ project_data = <<>> /\ local_files = <<>> /\ actions_to_perform = <<>>
    /\ before = <<>>
    /\ status_json = <<>> /\ subtitles_dir = {}
    /\ allow_deletes = FALSE /\ dry_run = FALSE
    /\ to_upload = <<>> /\ to_update = <<>> /\ to_delete = <<>>

SpecScan == InitScan /\ [][NextFH]_vars

(***************************************************************************)
(* src/src/project_handler.py sync_project                                 *)
(*                                                                         *)
(* It calls upload_caption / update_caption / delete_caption with a        *)
(* dry_run argument and confirm_quota with a cost table keyed UPLOAD /     *)
(* UPDATE / DELETE.  The revision of youtube_api.py and config.py that     *)
(* takes them is not in the tree: the dry-run short-circuit and the table  *)
(* follow the specification, everything else is youtube_api.py above.      *)
(***************************************************************************)
ACTION_COSTS == ("UPLOAD" :> 400) @@ ("UPDATE" :> 450) @@ ("DELETE" :> 50)

\* src/src/utils.py lines 6-8
total_cost(uploads, updates, deletes) ==
    uploads * ACTION_COSTS["UPLOAD"] + updates * ACTION_COSTS["UPDATE"]
        + deletes * ACTION_COSTS["DELETE"]

\* src/src/utils.py lines 16-20: the answer typed at the prompt
Proceeds_whatever_the_answer(answer) == TRUE

Proceeds(answer) == Lower(answer) \in {"y", "yes"}

Answers == {"y", "Yes", "n", ""}

upload_caption_dry(e, video_id, language, is_dry_run, fault, act) ==
    IF is_dry_run THEN Ret(e, Null)
    ELSE upload_caption(e, video_id, language, fault, act)

update_caption_dry(e, video_id, language, caption_id, is_dry_run, o, act) ==
    IF is_dry_run THEN Ret(e, Null)
    ELSE update_caption(e, video_id, language, caption_id, o, act)

delete_caption_dry(e, caption_id, is_dry_run, fault, act) ==
    IF is_dry_run THEN Ret(e, Null)
    ELSE delete_caption(e, caption_id, fault, act)

\* line 90: {caption['language']: caption for caption in captions}
RECURSIVE ByLanguage(_, _)
ByLanguage(captions, d) ==
    IF captions = <<>> THEN d
    ELSE ByLanguage(Tail(captions), DictSet(d, Head(captions).language, Head(captions)))

\* lines 102-103: the local languages that are / are not in remote_captions
RECURSIVE LocalWhere(_, _, _)
LocalWhere(local, remote_captions, known) ==
    IF local = <<>> THEN <<>>
    ELSE IF DictHas(remote_captions, Head(local)) = known
         THEN <<Head(local)>> \o LocalWhere(Tail(local), remote_captions, known)
         ELSE LocalWhere(Tail(local), remote_captions, known)

\* line 104: the captions of remote_captions that have no local file
RECURSIVE NotLocal(_, _)
NotLocal(remote_captions, local) ==
    IF remote_captions = <<>> THEN <<>>
    ELSE IF Head(remote_captions).key \notin local
         THEN <<Head(remote_captions).value>> \o NotLocal(Tail(remote_captions), local)
         ELSE NotLocal(Tail(remote_captions), local)

\* lines 78-108: read status.json, list the directory, compute the three sets
PHPlan ==
    /\ command = "sync_video"
    /\ pc = "idle"
    /\ \E listdir \in Perms(subtitles_dir) :
          LET remote_captions == ByLanguage(status_json.captions, <<>>)
          IN  /\ to_upload' = LocalWhere(listdir, remote_captions, FALSE)
              /\ to_update' = LocalWhere(listdir, remote_captions, TRUE)
              /\ to_delete' = NotLocal(remote_captions, subtitles_dir)
              /\ before' = [status_json |-> status_json, remote_captions |-> remote_captions,
                             remote |-> remote, quota |-> QUOTA_USAGE]
    /\ pc' = IF to_upload' = <<>> /\ to_update' = <<>> /\ to_delete' = <<>>
             THEN "done" ELSE "confirm"
    /\ done' = 0
    /\ log' = <<>>
    /\ UNCHANGED <<now, remote, inserted, QUOTA_USAGE, cache, csvVars, command, subtitles_json,
                   tree, project_data, local_files, actions_to_perform,
                   status_json, subtitles_dir, allow_deletes, dry_run>>

\* as PHConfirm, but the deletes are counted whether or not they are allowed
PHConfirm_counting_disallowed_deletes ==
    /\ command = "sync_video"
    /\ pc = "confirm"
    /\ LET cost == total_cost(Len(to_upload), Len(to_update), Len(to_delete))
       IN  IF dry_run \/ cost = 0
           THEN pc' = "exec" /\ log' = log
           ELSE \E answer \in Answers :
                   /\ log' = Append(log, Ev("prompt", None, None, answer, cost, 0))
                   /\ pc' = IF Proceeds(answer) THEN "exec" ELSE "done"
    /\ UNCHANGED <<now, remote, inserted, QUOTA_USAGE, cache, csvVars, command, done, fhVars, phVars>>

\* lines 121-122: if not dry_run and not confirm_quota(...): return
PHConfirm ==
    /\ command = "sync_video"
    /\ pc = "confirm"
    /\ LET cost == total_cost(Len(to_upload), Len(to_update),
                              IF allow_deletes THEN Len(to_delete) ELSE 0)
       IN  IF dry_run \/ cost = 0
           THEN pc' = "exec" /\ log' = log
           ELSE \E answer \in Answers :
                   /\ log' = Append(log, Ev("prompt", None, None, answer, cost, 0))
                   /\ pc' = IF Proceeds(answer) THEN "exec" ELSE "done"
    /\ UNCHANGED <<now, remote, inserted, QUOTA_USAGE, cache, csvVars, command, done, fhVars, phVars>>

\* the calls of lines 126-135, in their order
PlanPH ==
    [k \in 1..Len(to_upload) |-> [action |-> "upload", lang |-> to_upload[k], caption_id |-> None]]
    \o [k \in 1..Len(to_update) |->
            [action |-> "update", lang |-> to_update[k],
             caption_id |-> DictGet(before.remote_captions, to_update[k]).caption_id]]
    \o (IF allow_deletes
        THEN [k \in 1..Len(to_delete) |->
                [action |-> "delete", lang |-> to_delete[k].language,
                 caption_id |-> to_delete[k].caption_id]]
        ELSE <<>>)

\* lines 126-135: one call; an exception leaves sync_project
PHExec ==
    /\ command = "sync_video"
    /\ pc = "exec"
    /\ done < Len(PlanPH)
    /\ LET a == PlanPH[done + 1]
           video_id == status_json.video_id
       IN  \E o \in Oracles :
              LET r == CASE a.action = "upload" ->
                              upload_caption_dry(Env, video_id, a.lang, dry_run, o.insert, done + 1)
                         [] a.action = "update" ->
                              update_caption_dry(Env, video_id, a.lang, a.caption_id, dry_run, o, done + 1)
                         [] a.action = "delete" ->
                              delete_caption_dry(Env, a.caption_id, dry_run, o.direct, done + 1)
              IN  /\ Commit(r)
                  /\ pc' = IF r.raised = 0 THEN "exec" ELSE "raised"
    /\ done' = done + 1
    /\ UNCHANGED <<now, csvVars, command, fhVars, phVars>>

\* line 138: if not dry_run
WritesStatus_also_when_dry(is_dry_run) == TRUE

WritesStatus(is_dry_run) == ~is_dry_run

RECURSIVE StatusCaptions(_)
StatusCaptions(items) ==
    IF items = <<>> THEN <<>>
    ELSE <<[language |-> Head(items).language, caption_id |-> Head(items).id]>>
         \o StatusCaptions(Tail(items))

\* lines 137-155: list the captions again and rewrite status.json
PHSave ==
    /\ command = "sync_video"
    /\ pc = "exec"
    /\ done = Len(PlanPH)
    /\ IF ~WritesStatus(dry_run)
       THEN /\ pc' = "done"
            /\ UNCHANGED <<log, status_json>>
       ELSE \E fault \in BOOLEAN :
               LET r == captions_list_execute(Env, status_json.video_id, fault, 0)
               IN  IF r.raised # 0
                   THEN /\ pc' = "raised"
                        /\ log' = r.e.log
                        /\ UNCHANGED status_json
                   ELSE /\ pc' = "done"
                        /\ log' = Append(r.e.log, Ev("write", status_json.video_id, None, None, 200, 0))
                        /\ status_json' = [status_json EXCEPT !.captions = StatusCaptions(r.resp.items)]
    /\ UNCHANGED <<now, remote, inserted, QUOTA_USAGE, cache, csvVars, command, done, fhVars,
                   subtitles_dir, allow_deletes, dry_run, to_upload, to_update, to_delete>>

InitPH ==
    LET LocalLanguages == {"en", "es-US", "fr"}
    IN
    \* the projects a run may find
    LET StatusFiles ==
            { [video_id |-> "v1", captions |-> c] :
                c \in { <<>>,
                        <<[language |-> "en", caption_id |-> "c1"]>>,
                        <<[language |-> "es-US", caption_id |-> "c2"]>>,
                        <<[language |-> "en", caption_id |-> "c1"],
                          [language |-> "es-US", caption_id |-> "c2"]>> } }
    IN
    /\ command = "sync_video"
    /\ now = 1
    /\ remote \in SyncRemotes
    /\ inserted = 0
    /\ QUOTA_USAGE = 0
    /\ cache = <<>>
    /\ log = <<>>
    /\ calls = 0 /\ last = NoCall
    /\ pc = "idle" /\ done = 0
    /\ subtitles_json = <<>> /\ tree = <<>> /\ project_data = <<>>
    /\ local_files = <<>> /\ actions_to_perform = <<>> /\ before = <<>>
    /\ status_json \in StatusFiles
    /\ subtitles_dir \in SUBSET LocalLanguages
    /\ allow_deletes \in BOOLEAN
    /\ dry_run \in BOOLEAN
    /\ to_upload = <<>> /\ to_update = <<>> /\ to_delete = <<>>

NextPH == PHPlan \/ PHConfirm \/ PHExec \/ PHSave \/ Tick

SpecPH == InitPH /\ [][NextPH]_vars

(***************************************************************************)
(* SpecCacheKey: calls of generate_cache_key (src/src/cache.py)             *)
(***************************************************************************)
CacheFunctionNames == {"list_captions", "get_channel_videos"}

KwargItems ==
    LET KwargValues == {"v1", "ch1"}
    IN
    LET KwargNames == {"video_id", "channel_id", "part"}
    IN  KwargNames \X KwargValues

\* keyword arguments in the order the caller wrote them: names are distinct
KwargLists ==
    {<<>>} \cup {<<i>> : i \in KwargItems}
    \cup {kw \in KwargItems \X KwargItems : kw[1][1] # kw[2][1]}
    \cup {kw \in KwargItems \X KwargItems \X KwargItems :
            kw[1][1] # kw[2][1] /\ kw[1][1] # kw[3][1] /\ kw[2][1] # kw[3][1]}

InitCacheKey ==
    /\ command = "cache_key"
    /\ now = 0
    /\ remote = <<>>
    /\ inserted = 0
    /\ QUOTA_USAGE = 0
    /\ cache = <<>>
    /\ log = <<>>
    /\ calls = 0
    /\ last = NoCall
    /\ NoSyncRun

CacheKey(function_name, kwargs) ==
    /\ command = "cache_key"
    /\ last' = [fn |-> "generate_cache_key", function_name |-> function_name,
                kwargs |-> kwargs, result |-> generate_cache_key(function_name, kwargs)]
    /\ UNCHANGED <<apiVars, calls, command, pc, done, fhVars, phVars>>

NextCacheKey == \E f \in CacheFunctionNames, kw \in KwargLists : CacheKey(f, kw)

SpecCacheKey == InitCacheKey /\ [][NextCacheKey]_vars

(***************************************************************************)
(* SpecCache: calls of save_to_cache and get_from_cache (src/src/cache.py) *)
(* on a cache directory that outlives the process                          *)
(***************************************************************************)

CacheKeys ==
    { generate_cache_key("list_captions", <<<<"video_id", "v1">>>>),
      generate_cache_key("get_channel_videos", <<<<"channel_id", "ch1">>>>) }

CachePayloads == {[items |-> <<>>], [items |-> <<Track("c1", "en")>>]}

InitCache ==
    \* what the directory may hold when the process starts
    LET InitCacheDirs ==
            \* A cache file holds [timestamp, data] as save_to_cache writes it, or it is
            \* damaged: [corrupt |-> form].  What Python raises on each damaged form
            \* while get_from_cache runs lines 36-44:
            \*   unreadable     open() fails                           IOError
            \*   invalid_json   json.load() fails                      json.JSONDecodeError
            \*   no_timestamp   cache_data['timestamp'], no such key   KeyError
            \*   no_data        cache_data['data'], no such key        KeyError
            \*   bad_timestamp  datetime.fromisoformat("not a date")   ValueError
            \*   not_an_object  cache_data['timestamp'] on a list      TypeError
            LET CorruptForms ==
                    {"unreadable", "invalid_json", "no_timestamp", "no_data", "bad_timestamp", "not_an_object"}
            IN
            {<<>>}
            \cup {[k \in {key} |-> [corrupt |-> form]] : key \in CacheKeys, form \in CorruptForms}
            \cup {save_to_cache(<<>>, key, data, 0) : key \in CacheKeys, data \in CachePayloads}
    IN
    /\ command = "cache"
    /\ now = 0
    /\ remote = <<>>
    /\ inserted = 0
    /\ QUOTA_USAGE = 0
    /\ cache \in InitCacheDirs
    /\ log = <<>>
    /\ calls = 0
    /\ last = NoCall
    /\ NoSyncRun

CacheFrame == UNCHANGED <<now, remote, inserted, QUOTA_USAGE, calls, command, pc, done, fhVars, phVars>>

\* log keeps, for every key, the latest save_to_cache call made for it
CacheSave(key, data) ==
    \* lines 59-63: open() or json.dump() may raise IOError, which is caught and
    \* only printed: a failed open leaves the file as it was, a failed write
    \* leaves a truncated file
    LET WriteOutcomes == {"written", "open_failed", "write_failed"}
    IN
    /\ command = "cache"
    /\ \E outcome \in WriteOutcomes :
          /\ cache' = save_to_cache_or_fail(cache, key, data, now, outcome)
          /\ log' = DictSet(log, key, [data |-> data, at |-> now, outcome |-> outcome])
    /\ last' = [fn |-> "save_to_cache", key |-> key]
    /\ CacheFrame

\* as CacheGet, but a read that misses removes the file it could not use
CacheGet_removing_unusable_entry(key) ==
    /\ command = "cache"
    /\ last' = [fn |-> "get_from_cache", key |-> key, at |-> now,
                result |-> get_from_cache(cache, key, now)]
    /\ cache' = IF get_from_cache(cache, key, now) = Null
                THEN [k \in DOMAIN cache \ {key} |-> cache[k]]
                ELSE cache
    /\ UNCHANGED log
    /\ CacheFrame

CacheGet(key) ==
    /\ command = "cache"
    /\ last' = [fn |-> "get_from_cache", key |-> key, at |-> now,
                result |-> get_from_cache(cache, key, now)]
    /\ UNCHANGED <<cache, log>>
    /\ CacheFrame

NextCache ==
    \/ \E k \in CacheKeys, d \in CachePayloads : CacheSave(k, d)
    \/ \E k \in CacheKeys : CacheGet(k)
    \/ Tick

SpecCache == InitCache /\ [][NextCache]_vars

(***************************************************************************)
(* SpecQuota: a session of increment_quota calls (src/src/quota.py)        *)
(***************************************************************************)
\* the names youtube_api.py passes, and one that is not in the table
ApiCallNames == {"captions.list", "captions.insert", "channels.list", "videos.list"}

InitQuota ==
    /\ command = "quota"
    /\ now = 0
    /\ remote = <<>>
    /\ inserted = 0
    /\ QUOTA_USAGE = 0
    /\ cache = <<>>
    /\ log = <<>>
    /\ calls = 0
    /\ last = NoCall
    /\ NoSyncRun

\* increment_quota(api_call_name); the log keeps the names passed so far
QuotaIncrement(api_call_name) ==
    /\ command = "quota"
    /\ calls < MaxIncrements
    /\ QUOTA_USAGE' = increment_quota(QUOTA_USAGE, api_call_name)
    /\ log' = Append(log, Ev("increment_quota", None, None, api_call_name, 0, 0))
    /\ calls' = calls + 1
    /\ UNCHANGED <<now, remote, inserted, cache, last, command, pc, done, fhVars, phVars>>

NextQuota == \E n \in ApiCallNames : QuotaIncrement(n)

SpecQuota == InitQuota /\ [][NextQuota]_vars

(***************************************************************************)
(* SpecRuns: a project from create_project on (src/src/file_handler.py),   *)
(* or a status.json project, synchronised run after run.  Between two runs *)
(* the clock may advance and the user may edit one local file.             *)
(***************************************************************************)

\* youtube_api.py lines 39-68; `videos` is what the uploads playlist holds
get_channel_videos(e, videos, fault) ==
    LET ChannelId == "ch1"
    IN
    LET cache_key == generate_cache_key("get_channel_videos", <<<<"channel_id", ChannelId>>>>)
        cached_videos == get_from_cache(e.cache, cache_key, now)
        asked(env, op, status) == [env EXCEPT !.log = Append(@, Ev(op, None, None, ChannelId, status, 0))]
    IN  IF cached_videos # Null /\ cached_videos.items # <<>>      \* if cached_videos:
        THEN Ret(asked(e, "cache_hit", 200), cached_videos)
        ELSE CASE fault = "channels" -> Ret(asked(e, "channels", 500), [items |-> <<>>])
               [] fault = "playlist" ->
                    Ret([asked(asked(e, "channels", 200), "playlist", 500)
                            EXCEPT !.quota = increment_quota(@, "channels.list")],
                        [items |-> <<>>])
               [] OTHER ->
                    Ret([asked(asked(e, "channels", 200), "playlist", 200)
                            EXCEPT !.quota = increment_quota(increment_quota(@, "channels.list"),
                                                            "playlistItems.list"),
                                   !.cache = save_to_cache(@, cache_key, [items |-> videos], now)],
                        [items |-> videos])

\* file_handler.py lines 139-145: the records create_project writes for one video
RECURSIVE CreatedSubtitles_stamped(_, _)
CreatedSubtitles_stamped(items, subtitles) ==
    IF items = <<>> THEN subtitles
    ELSE LET lang == Head(items).language
         IN  CreatedSubtitles_stamped(Tail(items),
                [l \in DOMAIN subtitles \cup {lang} |->
                    IF l = lang THEN Record(Head(items).id, now) ELSE subtitles[l]])

RECURSIVE CreatedSubtitles(_, _)
CreatedSubtitles(items, subtitles) ==
    IF items = <<>> THEN subtitles
    ELSE LET lang == Head(items).language
         IN  CreatedSubtitles(Tail(items),
                [l \in DOMAIN subtitles \cup {lang} |->
                    IF l = lang THEN Record(Head(items).id, NoTime) ELSE subtitles[l]])

\* file_handler.py lines 131-150: the loop over the videos of the channel.
\* The handler of lines 146-148 formats e.code, which HttpError does not have:
\* the AttributeError it raises ends create_project.
RECURSIVE CreateVideos(_, _, _, _)
CreateVideos(e, videos, faults, pd) ==
    IF videos = <<>> THEN [e |-> e, pd |-> pd, raised |-> None]
    ELSE LET video_id == Head(videos)
             r == list_captions(e, video_id, faults[video_id], 0)
             video_data == [subtitles |-> CreatedSubtitles(r.resp.items, <<>>)]
         IN  IF r.raised # 0 THEN [e |-> r.e, pd |-> pd, raised |-> "AttributeError"]
             ELSE CreateVideos(r.e, Tail(videos), faults,
                     [v \in DOMAIN pd \cup {video_id} |->
                         IF v = video_id THEN video_data ELSE pd[v]])

\* file_handler.py lines 117-157: create_project on a name not used yet;
\* subtitles.json is written (152-154) when the loop has ended
FHCreate ==
    LET ChannelFaults == {"none", "channels", "playlist"}
    IN
    /\ command = "sync"
    /\ pc = "new"
    /\ \E fault \in ChannelFaults, faults \in [KnownVideos -> BOOLEAN], videos \in Perms(KnownVideos) :
          LET vs == get_channel_videos(Env0, videos, fault)
              c == CreateVideos(vs.e, vs.resp.items, faults, <<>>)
          IN  /\ Commit([e |-> c.e])
              /\ IF c.raised = None
                 THEN subtitles_json' = c.pd /\ pc' = "idle"
                 ELSE UNCHANGED subtitles_json /\ pc' = "aborted"
    /\ UNCHANGED <<now, csvVars, command, done, tree, project_data, local_files,
                   actions_to_perform, before, phVars>>

\* the status values sync_project gives a record whose action raised
ErrorStatuses == {ErrorStatus(404), ErrorStatus(500)}

\* sync_project is started again on the same project, at once or an hour
\* later; `last` keeps what the run before did and `calls` counts the runs
\* that ended
SyncAgain ==
    \* the files the user may have edited since the last run: none or one
    LET Edits == {{}} \cup {{p} : p \in {q \in DOMAIN tree : tree[q] < now}}
    IN
    \* every action of the run that ended succeeded
    LET RunSucceeded ==
            /\ pc = "done"
            /\ command = "sync" =>
                  \A key \in RecordKeys(subtitles_json) :
                      subtitles_json[key[1]].subtitles[key[2]].status \notin ErrorStatuses
            /\ command = "sync_video" =>
                  /\ ~dry_run
                  /\ \A j \in 1..Len(log) : log[j].op = "prompt" => Proceeds(log[j].id)
    IN
    /\ command \in {"sync", "sync_video"}
    /\ pc \in {"done", "raised"}
    /\ calls < MaxRuns - 1
    /\ calls' = calls + 1
    /\ now' \in {now, IF now < MaxTime THEN now + 1 ELSE now}
    /\ \E edited \in Edits :
          /\ tree' = [p \in DOMAIN tree |-> IF p \in edited THEN now ELSE tree[p]]
          /\ last' = [fn |-> "sync_project", succeeded |-> RunSucceeded, edited |-> edited,
                      subtitles_json |-> subtitles_json, status_json |-> status_json,
                      log |-> log, plan |-> actions_to_perform]
    /\ pc' = "idle"
    /\ UNCHANGED <<remote, inserted, QUOTA_USAGE, cache, log, command, done, subtitles_json,
                   project_data, local_files, actions_to_perform, before, phVars>>

RunTrees ==
    LET RunMtimes(path) == IF path = NestedEn THEN {0, 1} ELSE {1}
    IN
    LET NestedEsUS == [dir |-> "v1", stem |-> <<"es-US">>]
    IN
    UNION { {t \in [D -> {0, 1}] : \A p \in D : t[p] \in RunMtimes(p)} :
            D \in {E \in SUBSET {NestedEn, NestedEs, NestedEsUS} : Cardinality(E) <= 2} }

RunRemotes == {<<>>, <<Track("c1", "en")>>}

InitProject ==
    /\ command = "sync"
    /\ now = 1
    /\ remote \in RunRemotes
    /\ inserted = 0
    /\ QUOTA_USAGE = 0
    /\ cache = <<>>
    /\ log = <<>>
    /\ calls = 0 /\ last = NoCall
    /\ pc = "new" /\ done = 0
    /\ subtitles_json = <<>>
    /\ tree \in RunTrees
    /\ project_data = <<>> /\ local_files = <<>> /\ actions_to_perform = <<>>
    /\ before = <<>>
    /\ status_json = <<>> /\ subtitles_dir = {}
    /\ allow_deletes = FALSE /\ dry_run = FALSE
    /\ to_upload = <<>> /\ to_update = <<>> /\ to_delete = <<>>

\* a project synchronised an hour ago
InitSynced ==
    /\ InitProject!1 /\ InitProject!2 /\ InitProject!3 /\ InitProject!4 /\ InitProject!5
    /\ InitProject!6 /\ InitProject!7 /\ InitProject!8
    /\ pc = "idle" /\ done = 0
    /\ subtitles_json = [v \in KnownVideos |-> [subtitles |-> [l \in {"en"} |-> Record("c1", 0)]]]
    /\ tree \in RunTrees
    /\ project_data = <<>> /\ local_files = <<>> /\ actions_to_perform = <<>>
    /\ before = <<>>
    /\ status_json = <<>> /\ subtitles_dir = {}
    /\ allow_deletes = FALSE /\ dry_run = FALSE
    /\ to_upload = <<>> /\ to_update = <<>> /\ to_delete = <<>>

InitRuns ==
    LET InitStatusProject ==
            /\ InitPH
            /\ remote \in RunRemotes
            /\ subtitles_dir \in SUBSET {"en", "fr"}
    IN  InitProject \/ InitSynced \/ InitStatusProject

NextRuns ==
    \/ FHCreate \/ FHPlan \/ FHExec \/ FHSave
    \/ PHPlan \/ PHConfirm \/ PHExec \/ PHSave
    \/ SyncAgain

SpecRuns == InitRuns /\ [][NextRuns]_vars

(***************************************************************************)
(* SpecCli: one run of main (src/src/main.py), from the command line to the *)
(* exit code.  The commands are taken by what they can do to main: return  *)
(* or let an exception escape.                                             *)
(***************************************************************************)
Running == -1       \* no exit code yet

\* src/src/config.py lines 58-73: the exit code of load_config, Running if it returns
load_config(file) ==
    \* src/src/config.py lines 44-56: the ValueError validate_config raises, if any
    LET validate_config(config) ==
            IF config \in {"not_a_dict", "no_channels", "channels_not_a_dict", "no_channel",
                           "bad_channel_id"}
            THEN "ValueError" ELSE None
    IN
    IF file = "missing" THEN 1
    ELSE IF file = "invalid_json" THEN 1            \* except json.JSONDecodeError
    ELSE IF validate_config(file) = "ValueError" THEN 1     \* except ValueError
    ELSE Running

Subcommands == {"download", "report", "process", "upload", "smart-upload"}
modifying_commands == {"process", "upload", "smart-upload"}

\* main.py line 77: parser.parse_args() leaves with status 2 on a command
\* line it rejects
parse_args(argv) ==
    IF ~argv.channel_known \/ argv.command \notin Subcommands
            \/ (argv.dry_run /\ argv.command \notin modifying_commands)
    THEN 2 ELSE Running

\* what may escape a command, or get_authenticated_service
InputErrors == {"ValueError", "FileNotFoundError", "PermissionError"}
Exceptions == InputErrors \cup {"HttpError", "KeyError"}

\* as ExitCodeOf, but an exception of no named class is not reported
ExitCodeOf_named_classes_only(exception) ==
    IF exception \in InputErrors THEN 1
    ELSE IF exception = "HttpError" THEN 1
    ELSE 0

\* main.py lines 145-161: the except clauses of main
ExitCodeOf(exception) ==
    IF exception \in InputErrors THEN 1            \* except (ValueError, ...)
    ELSE IF exception = "HttpError" THEN 1          \* except HttpError
    ELSE 1                                          \* except Exception

\* the files a smart-upload command line may name: is it there, may it be
\* read, and its name without ".srt", cut at its underscores
File(exists, readable, stem) == [exists |-> exists, readable |-> readable, stem |-> stem]

\* main.py lines 121-126: components[-1] and '_'.join(components[:-1])
ParsedLanguage(file) == file.stem[Len(file.stem)]
ParsedVideoId(file) == Join(SubSeq(file.stem, 1, Len(file.stem) - 1))

\* as ValidationError, but the video ids of the files are not compared
RECURSIVE ValidationError_any_video(_, _)
ValidationError_any_video(file_paths, target_video_id) ==
    IF file_paths = <<>> THEN None
    ELSE LET file == Head(file_paths)
         IN  IF ~file.exists THEN "FileNotFoundError"
             ELSE IF ~file.readable THEN "PermissionError"
             ELSE IF Len(file.stem) < 2 THEN "ValueError"
             ELSE IF ParsedVideoId(file) = "" \/ ParsedLanguage(file) = "" THEN "ValueError"
             ELSE ValidationError_any_video(Tail(file_paths), ParsedVideoId(file))

\* main.py lines 112-135: the exception the validation loop raises, if any
RECURSIVE ValidationError(_, _)
ValidationError(file_paths, target_video_id) ==
    IF file_paths = <<>> THEN None
    ELSE LET file == Head(file_paths)
         IN  IF ~file.exists THEN "FileNotFoundError"
             ELSE IF ~file.readable THEN "PermissionError"
             ELSE IF Len(file.stem) < 2 THEN "ValueError"
             ELSE IF ParsedVideoId(file) = "" \/ ParsedLanguage(file) = "" THEN "ValueError"
             ELSE IF target_video_id # None /\ ParsedVideoId(file) # target_video_id
             THEN "ValueError"
             ELSE ValidationError(Tail(file_paths), ParsedVideoId(file))

\* main.py lines 140-142: the uploads, in the order of the command line; the
\* first one that raises ends the loop
RECURSIVE SmartUploads(_, _, _, _, _)
SmartUploads(e, file_paths, is_dry_run, faults, k) ==
    IF k > Len(file_paths) THEN Ret(e, Null)
    ELSE LET r == upload_caption_dry(e, ParsedVideoId(file_paths[k]),
                                     ParsedLanguage(file_paths[k]), is_dry_run, faults[k], k)
         IN  IF r.raised # 0 THEN r
             ELSE SmartUploads(r.e, file_paths, is_dry_run, faults, k + 1)

InitCli ==
    LET NoMain == [fn |-> "main", config |-> None, argv |-> Null, file_paths |-> <<>>, cause |-> None,
                   exit_code |-> Running]
    IN
    /\ command = "cli"
    /\ now = 0
    /\ remote = <<>>
    /\ inserted = 0
    /\ QUOTA_USAGE = 0
    /\ cache = <<>>
    /\ log = <<>>
    /\ calls = 0
    /\ last = NoMain
    /\ NoSyncRun

CliFrame == UNCHANGED <<calls, command, done, fhVars, phVars>>

\* main.py lines 44-46: no argument at all shows the help
CliStart ==
    \* sys.exit(code)
    LET Exit(code, cause) ==
            /\ pc' = "exited"
            /\ last' = [last EXCEPT !.exit_code = code, !.cause = cause]
    IN
    /\ command = "cli"
    /\ pc = "idle"
    /\ \E no_argument \in BOOLEAN :
          IF no_argument THEN Exit(0, "help")
          ELSE pc' = "load_config" /\ UNCHANGED last
    /\ UNCHANGED apiVars
    /\ CliFrame

\* main.py line 48
CliLoadConfig ==
    \* what config.json may be
    LET ConfigFiles == {"missing", "invalid_json", "not_a_dict", "no_channels", "channels_not_a_dict",
                        "no_channel", "bad_channel_id", "valid"}
    IN
    /\ command = "cli"
    /\ pc = "load_config"
    /\ \E file \in ConfigFiles :
          IF load_config(file) # Running
          THEN /\ pc' = "exited"
               /\ last' = [last EXCEPT !.config = file, !.exit_code = load_config(file),
                                        !.cause = "configuration"]
          ELSE /\ pc' = "parse_args"
               /\ last' = [last EXCEPT !.config = file]
    /\ UNCHANGED apiVars
    /\ CliFrame

\* main.py lines 49-82
CliParseArgs ==
    \* the command lines: is the channel one of the configured ones, the word in
    \* the place of the subcommand, the --dry-run flag
    LET CommandLines == [channel_known : BOOLEAN, command : Subcommands \cup {"sync"}, dry_run : BOOLEAN]
    IN
    /\ command = "cli"
    /\ pc = "parse_args"
    /\ \E argv \in CommandLines :
          IF parse_args(argv) # Running
          THEN /\ pc' = "exited"
               /\ last' = [last EXCEPT !.argv = argv, !.exit_code = parse_args(argv),
                                        !.cause = "usage"]
          ELSE /\ pc' = "run"
               /\ last' = [last EXCEPT !.argv = argv]
    /\ UNCHANGED apiVars
    /\ CliFrame

\* main.py lines 84-161: the try block and its except clauses.  download,
\* report, process and upload are taken by their outcome; smart-upload is
\* followed through its validation and its uploads.
CliRun ==
    LET FileLists ==
            LET FileInputs ==
                    { File(TRUE, TRUE, <<"v1", "en">>), File(TRUE, TRUE, <<"v1", "es">>),
                      File(TRUE, TRUE, <<"a", "b", "en">>), File(FALSE, FALSE, <<"v1", "fr">>),
                      File(TRUE, FALSE, <<"v1", "fr">>), File(TRUE, TRUE, <<"notes">>),
                      File(TRUE, TRUE, <<"v1", "">>), File(TRUE, TRUE, <<"", "en">>) }
            IN  UNION {[1..n -> FileInputs] : n \in 1..MaxFiles}
    IN
    /\ command = "cli"
    /\ pc = "run"
    /\ LET is_dry_run == last.argv.dry_run
           smart == last.argv.command = "smart-upload"
           asks == last.argv.command \in {"upload", "smart-upload"} /\ ~is_dry_run
       IN  \E service \in {"returns", "FileNotFoundError"}, answer \in Answers,
              outcome \in {"returns"} \cup Exceptions,
              file_paths \in IF smart THEN FileLists ELSE {<<>>},
              faults \in [1..MaxFiles -> BOOLEAN] :
              LET uploads == IF smart THEN Len(file_paths) ELSE 1
                  invalid == ValidationError(file_paths, None)
                  r == SmartUploads(Env0, file_paths, is_dry_run, faults, 1)
                  Leave(code, cause) ==
                      /\ pc' = "exited"
                      /\ last' = [last EXCEPT !.exit_code = code, !.cause = cause,
                                               !.file_paths = file_paths]
              IN  IF ~(last.argv.command \in modifying_commands /\ is_dry_run)
                        /\ service # "returns"
                  THEN Leave(ExitCodeOf(service), service) /\ UNCHANGED apiVars
                  ELSE IF asks /\ total_cost(uploads, 0, 0) # 0 /\ ~Proceeds(answer)
                  THEN Leave(0, "refused") /\ UNCHANGED apiVars
                  ELSE IF ~smart
                  THEN /\ IF outcome # "returns" THEN Leave(ExitCodeOf(outcome), outcome)
                          ELSE Leave(0, "returned")
                       /\ UNCHANGED apiVars
                  ELSE IF invalid # None
                  THEN Leave(ExitCodeOf(invalid), invalid) /\ UNCHANGED apiVars
                  ELSE /\ Commit(r)
                       /\ UNCHANGED now
                       /\ IF r.raised # 0 THEN Leave(ExitCodeOf("HttpError"), "HttpError")
                          ELSE Leave(0, "returned")
    /\ CliFrame

NextCli == CliStart \/ CliLoadConfig \/ CliParseArgs \/ CliRun

SpecCli == InitCli /\ [][NextCli]_vars

(***************************************************************************)
(* SpecBatch: process_csv_batch (src/src/file_handler.py lines 79-115) on  *)
(* one CSV file.  `last` holds the file and the rows kept, `done` the rows *)
(* already processed, `log` the calls made.                                *)
(*                                                                         *)
(* googleapiclient's HttpError has the attributes resp, content, uri,      *)
(* reason, error_details and status_code (youtube_api.py reads             *)
(* e.resp.status); it has no attribute `code`, so the e.code of the        *)
(* except HttpError clause (line 113) raises AttributeError.               *)
(***************************************************************************)
Row(action, caption_id, file_path) ==
    [action |-> action, video_id |-> "v1", language |-> "en", caption_id |-> caption_id,
     file_path |-> file_path]

\* lines 84-85: the rows whose action is not NaN, with the action stripped
\* and upper-cased; `index` is the row's place in the file
RECURSIVE ActionRows(_, _)
ActionRows(df, index) ==
    IF index > Len(df) THEN <<>>
    ELSE IF df[index].action = NaN THEN ActionRows(df, index + 1)
    ELSE <<[df[index] EXCEPT !.action = Upper(Strip(@))] @@ [index |-> index]>>
         \o ActionRows(df, index + 1)

\* str(cell)
Str(cell) == IF cell = NaN THEN "nan" ELSE cell

InitBatch ==
    LET NoBatch == [fn |-> "process_csv_batch", csv |-> <<>>, exists |-> TRUE, actions_df |-> <<>>,
                    raised |-> None]
    IN
    LET CsvFiles ==
            \* the rows a CSV file may hold; an empty cell is read as NaN
            LET RowInputs ==
                    { Row("UPLOAD", NaN, "en.srt"), Row("UPLOAD", NaN, "missing.srt"),
                      Row(" update ", "c1", "en.srt"), Row("UPDATE", NaN, "en.srt"),
                      Row("delete", "c1", NaN),
                      Row(NaN, "c1", NaN), Row("  ", "c1", "en.srt"), Row("skip", "c1", "en.srt") }
            IN  UNION {[1..n -> RowInputs] : n \in 0..MaxRows}
    IN
    /\ command = "batch"
    /\ now = 0
    /\ remote \in RunRemotes
    /\ inserted = 0
    /\ QUOTA_USAGE = 0
    /\ cache = <<>>
    /\ log = <<>>
    /\ calls = 0
    /\ \E csv \in CsvFiles, exists \in BOOLEAN :
          /\ (~exists => csv = <<>>)
          /\ last = [NoBatch EXCEPT !.csv = csv, !.exists = exists]
    /\ NoSyncRun

\* lines 81-88: read the file and keep the rows that have an action.  On a
\* file without any action the column is read as floats: whether the .str
\* accessor of line 85 accepts the empty column depends on the pandas release.
BatchStart ==
    /\ command = "batch"
    /\ pc = "idle"
    /\ LET actions_df == ActionRows(last.csv, 1)
       IN  IF ~last.exists
           THEN pc' = "raised" /\ last' = [last EXCEPT !.raised = "FileNotFoundError"]
           ELSE IF actions_df = <<>>
           THEN \/ pc' = "done" /\ UNCHANGED last
                \/ /\ last.csv # <<>>
                   /\ pc' = "raised"
                   /\ last' = [last EXCEPT !.raised = "AttributeError"]
           ELSE pc' = "rows" /\ last' = [last EXCEPT !.actions_df = actions_df]
    /\ UNCHANGED <<apiVars, calls, command, done, fhVars, phVars>>

\* lines 90-115: one row of actions_df
BatchRow ==
    \* the handlers of lines 108-115: what leaves the try statement of a row
    \* whose call raised `exception`
    LET RowHandler(exception) ==
            IF exception = "FileNotFoundError" THEN None
            ELSE IF exception = "PermissionError" THEN None
            ELSE IF exception = "HttpError" THEN "AttributeError"      \* e.code
            ELSE None
    IN
    \* MediaFileUpload(file_path, ...): the file has to be there
    LET FileExists(file_path) == file_path = "en.srt"
    IN
    /\ command = "batch"
    /\ pc = "rows"
    /\ LET k == done + 1
           row == last.actions_df[k]
           called(op, id) ==
               [Env EXCEPT !.log = Append(@, Ev(op, row.video_id, Str(row.language), id, 0, k))]
       IN  \E o \in Oracles :
              LET r == CASE row.action = "UPLOAD" ->
                              IF FileExists(Str(row.file_path))
                              THEN upload_caption(called("upload_caption", None), row.video_id,
                                                  Str(row.language), o.insert, k)
                              ELSE Raise(called("upload_caption", None), -1)
                         [] row.action = "UPDATE" ->
                              update_caption(called("update_caption", row.caption_id),
                                             row.video_id, Str(row.language), row.caption_id, o, k)
                         [] row.action = "DELETE" ->
                              delete_caption(called("delete_caption", Str(row.caption_id)),
                                             Str(row.caption_id), o.direct, k)
                         [] OTHER -> Ret(Env, Null)
                  exception == IF r.raised = 0 THEN None
                               ELSE IF r.raised = -1 THEN "FileNotFoundError"
                               ELSE "HttpError"
                  escaped == IF exception = None THEN None ELSE RowHandler(exception)
              IN  /\ Commit(r)
                  /\ IF escaped # None
                     THEN pc' = "raised" /\ last' = [last EXCEPT !.raised = escaped]
                     ELSE /\ pc' = IF k = Len(last.actions_df) THEN "done" ELSE "rows"
                          /\ UNCHANGED last
    /\ done' = done + 1
    /\ UNCHANGED <<now, calls, command, fhVars, phVars>>

NextBatch == BatchStart \/ BatchRow

SpecBatch == InitBatch /\ [][NextBatch]_vars

(***************************************************************************)
(* SpecLookup: the cached lookups of src/src/youtube_api.py, list_captions *)
(* and get_channel_videos, called one after the other for the same video   *)
(* and the same channel.  `last` holds the uploads playlist of the channel *)
(* and what the last call found and returned.                              *)
(***************************************************************************)
InitLookup ==
    /\ command = "lookup"
    /\ now = 0
    /\ remote \in RunRemotes
    /\ inserted = 0
    /\ QUOTA_USAGE = 0
    /\ cache = <<>>
    /\ log = <<>>
    /\ calls = 0
    /\ \E playlist \in {<<>>, <<"v1">>} :
          last = [fn |-> "none", playlist |-> playlist, raised |-> 0, resp |-> Null,
                  quota_before |-> 0, cache_before |-> <<>>, at |-> 0]
    /\ NoSyncRun

\* one more lookup is made than SpecApi makes calls: a call and those after it
LookupCaptions ==
    /\ command = "lookup"
    /\ calls <= MaxCalls
    /\ \E fault \in BOOLEAN :
          LET r == list_captions(Env0, "v1", fault, calls + 1)
          IN  /\ Commit(r)
              /\ last' = [last EXCEPT !.fn = "list_captions", !.raised = r.raised,
                                      !.resp = r.resp, !.quota_before = QUOTA_USAGE,
                                      !.cache_before = cache, !.at = now]
    /\ calls' = calls + 1
    /\ UNCHANGED <<now, command, pc, done, fhVars, phVars>>

LookupVideos ==
    /\ command = "lookup"
    /\ calls <= MaxCalls
    /\ \E fault \in {"none", "channels", "playlist"} :
          LET r == get_channel_videos(Env0, last.playlist, fault)
          IN  /\ Commit(r)
              /\ last' = [last EXCEPT !.fn = "get_channel_videos", !.raised = r.raised,
                                      !.resp = r.resp, !.quota_before = QUOTA_USAGE,
                                      !.cache_before = cache, !.at = now]
    /\ calls' = calls + 1
    /\ UNCHANGED <<now, command, pc, done, fhVars, phVars>>

NextLookup == LookupCaptions \/ LookupVideos \/ Tick

SpecLookup == InitLookup /\ [][NextLookup]_vars

(***************************************************************************)
(* SpecLanguage: upload_caption and update_caption called with language    *)
(* codes in every spelling, and normalize_language_code applied twice       *)
(***************************************************************************)
InitLanguage ==
    /\ command = "language"
    /\ now = 0
    /\ remote \in InitRemotes
    /\ inserted = 0
    /\ QUOTA_USAGE = 0
    /\ cache = <<>>
    /\ log = <<>>
    /\ calls = 0
    /\ last = NoCall
    /\ NoSyncRun

LanguageInputs == {"EN", " en", "es", "es-US", "fr", "fr-FR", "pt", "pt-BR", "xx", "XX"}

LangUpload(language) ==
    /\ command = "language"
    /\ calls < MaxCalls
    /\ \E fault \in BOOLEAN :
          LET r == upload_caption(Env0, "v1", language, fault, calls + 1)
              \* lines 87-89: the warning upload_caption prints
              warned == ~validate_language_code(normalize_language_code(language))
          IN  /\ Commit(r)
              /\ last' = [fn |-> "upload", language |-> language, raised |-> r.raised,
                          resp |-> r.resp, warned |-> warned]
    /\ calls' = calls + 1
    /\ UNCHANGED <<now, command, pc, done, fhVars, phVars>>

LangUpdate(language) ==
    /\ command = "language"
    /\ calls < MaxCalls
    /\ \E o \in Oracles, caption_id \in {None, "c1"} :
          LET r == update_caption(Env0, "v1", language, caption_id, o, calls + 1)
          IN  /\ Commit(r)
              /\ last' = [fn |-> "update", language |-> language, raised |-> r.raised,
                          resp |-> r.resp, warned |-> FALSE]
    /\ calls' = calls + 1
    /\ UNCHANGED <<now, command, pc, done, fhVars, phVars>>

LangNormalize(language) ==
    /\ command = "language"
    /\ calls < MaxCalls
    /\ last' = [fn |-> "normalize_language_code", language |-> language, raised |-> 0,
                resp |-> normalize_language_code(language),
                again |-> normalize_language_code(normalize_language_code(language))]
    /\ calls' = calls + 1
    /\ UNCHANGED <<apiVars, command, pc, done, fhVars, phVars>>

NextLanguage ==
    \/ \E l \in LanguageInputs : LangUpload(l)
    \/ \E l \in LanguageInputs : LangUpdate(l)
    \/ \E l \in LanguageInputs : LangNormalize(l)
    \/ Tick

SpecLanguage == InitLanguage /\ [][NextLanguage]_vars

(***************************************************************************)
(* The program: one of the commands runs                                   *)
(***************************************************************************)
Init == InitApi \/ InitFH \/ InitPH

Next == NextApi \/ NextFH \/ NextPH

Spec == Init /\ [][Next]_vars

(***************************************************************************)
(* Properties of update_caption (SpecApi)                                  *)
(***************************************************************************)
LastIsUpdate == last.fn = "update"
LogOps == {log[i].op : i \in 1..Len(log)}

\* the listing the by-language search of the last call read: list_captions
\* returns the stored entry on a hit and stores what it fetched on a miss
ListKey(video_id) == generate_cache_key("list_captions", <<<<"video_id", video_id>>>>)
SeenItems ==
    IF ListKey(last.video_id) \in DOMAIN cache
    THEN cache[ListKey(last.video_id)].data.items ELSE <<>>
Matches ==
    {i \in 1..Len(SeenItems) :
        Lower(SeenItems[i].language) = Lower(normalize_language_code(last.language))}
FirstMatch == CHOOSE i \in Matches : \A j \in Matches : i <= j

\* C9: with a non-empty captionId the direct update by that id comes first;
\* if it succeeds nothing else is called; if it fails with 404 the
\* by-language search (listing or cached listing) follows; if it fails with
\* another status that error is raised and nothing else is called.
C9_DirectUpdateFirst ==
    (LastIsUpdate /\ is_valid_caption_id(last.caption_id)) =>
        /\ Len(log) >= 1
        /\ log[1].op = "update"
        /\ log[1].id = Strip(last.caption_id)
        /\ (log[1].status = 200 => Len(log) = 1 /\ last.raised = 0)
        /\ (log[1].status = 404 =>
                /\ Len(log) >= 2
                /\ log[2].op \in {"list", "cache_hit"}
                /\ log[2].vid = last.video_id)
        /\ (log[1].status \notin {200, 404} =>
                Len(log) = 1 /\ last.raised = log[1].status)

C9_Witness404 ==
    /\ LastIsUpdate /\ is_valid_caption_id(last.caption_id)
    /\ Len(log) >= 3 /\ log[1].status = 404 /\ log[2].op = "list" /\ log[3].op = "update"

\* C10 as stated: without a captionId no direct update is attempted, the
\* listing is searched for the normalized language ignoring case, and when a
\* match is found the update goes to the found id and no insert is made.
C10_NoInsertWhenFound ==
    (LastIsUpdate /\ ~is_valid_caption_id(last.caption_id)) =>
        /\ Len(log) >= 1
        /\ log[1].op \in {"list", "cache_hit"}
        /\ (log[1].status = 200 /\ Matches # {} =>
                /\ Len(log) >= 2
                /\ log[2].op = "update"
                /\ log[2].id = SeenItems[FirstMatch].id
                /\ "insert" \notin LogOps)

\* C10: without a captionId no direct update is attempted, the listing is
\* searched for the normalized language ignoring case, and when a match is
\* found the update goes to the found id; if that update succeeds no insert
\* is made.
C10_NoInsertWhenFoundAndUpdated ==
    (LastIsUpdate /\ ~is_valid_caption_id(last.caption_id)) =>
        /\ Len(log) >= 1
        /\ log[1].op \in {"list", "cache_hit"}
        /\ (log[1].status = 200 /\ Matches # {} =>
                /\ Len(log) >= 2
                /\ log[2].op = "update"
                /\ log[2].id = SeenItems[FirstMatch].id
                /\ (log[2].status = 200 => Len(log) = 2))

C10_WitnessFoundIgnoringCase ==
    /\ LastIsUpdate /\ last.caption_id = NaN /\ last.language = "es"
    /\ Len(log) = 2 /\ log[1].op = "list" /\ log[1].status = 200
    /\ Matches # {} /\ SeenItems[FirstMatch].language = "es-us"
    /\ log[2].op = "update" /\ log[2].status = 200

\* C11: when the by-language search of update_caption gets a listing that
\* holds no caption of the requested language, no update follows it and
\* exactly one insert for that video and the normalized language is made;
\* without a usable captionId the call makes no update at all.
C11_NoMatchUploadsOnce ==
    LastIsUpdate =>
        \A j \in 1..Len(log) :
            (log[j].op \in {"list", "cache_hit"} /\ log[j].status = 200 /\ Matches = {}) =>
                /\ Len(log) = j + 1
                /\ log[j + 1].op = "insert"
                /\ log[j + 1].vid = last.video_id
                /\ log[j + 1].lang = normalize_language_code(last.language)
                /\ (~is_valid_caption_id(last.caption_id) => "update" \notin LogOps)

C11_WitnessNoMatchInListing ==
    /\ LastIsUpdate /\ ~is_valid_caption_id(last.caption_id)
    /\ Len(log) = 2 /\ log[1].op = "list" /\ log[1].status = 200
    /\ SeenItems # <<>> /\ Matches = {}
    /\ log[2].op = "insert" /\ log[2].status = 200

(***************************************************************************)
(* Properties of sync_project                                              *)
(***************************************************************************)
Count(seq, x) == Cardinality({k \in 1..Len(seq) : seq[k] = x})

EventsOf(k) == {j \in 1..Len(log) : log[j].act = k}

FirstEventOf(k) == CHOOSE j \in EventsOf(k) : \A h \in EventsOf(k) : j <= h

LastEventOf(k) == CHOOSE j \in EventsOf(k) : \A h \in EventsOf(k) : h <= j

MutationOps == {"insert", "update", "delete"}

\* file_handler: the pairs the scan found, and what subtitles.json held for them
FoundPairs == {before.local_files[k].key : k \in 1..Len(before.local_files)}

HasRecord(key) ==
    /\ key[1] \in DOMAIN before.project_data
    /\ key[2] \in DOMAIN before.project_data[key[1]].subtitles

StoredRecord(key) == before.project_data[key[1]].subtitles[key[2]]

LocalMtime(key) == tree[DictGet(before.local_files, key)]

Planned(action, key) == Count(actions_to_perform, Action(action, key[1], key[2]))

\* project_handler: the languages status.json held
StatusLanguages(status) == {status.captions[k].language : k \in 1..Len(status.captions)}

DeleteLanguages == {to_delete[k].language : k \in 1..Len(to_delete)}

\* C1: every pair the local scan finds for a known video that has no caption
\* record gets exactly one upload action in the plan and no update or delete
\* action, in file_handler.sync_project and in project_handler.sync_project.
C1_OneUploadPerNewFile ==
    /\ (command = "sync" /\ pc # "idle") =>
          \A key \in FoundPairs :
              (key[1] \in DOMAIN before.project_data /\ ~HasRecord(key)) =>
                  /\ Planned("upload", key) = 1
                  /\ Planned("update", key) = 0
                  /\ Planned("delete", key) = 0
    /\ (command = "sync_video" /\ pc # "idle") =>
          \A lang \in subtitles_dir :
              lang \notin StatusLanguages(before.status_json) =>
                  /\ Count(to_upload, lang) = 1
                  /\ Count(to_update, lang) = 0
                  /\ lang \notin DeleteLanguages

C1_WitnessNewFileUploaded ==
    /\ command = "sync"
    /\ pc = "done"
    /\ \E k \in 1..Len(actions_to_perform) :
          LET a == actions_to_perform[k]
          IN  /\ a.action = "upload"
              /\ ~HasRecord(<<a.video_id, a.lang>>)
              /\ \E j \in EventsOf(k) : log[j].op = "insert" /\ log[j].status = 200

NotNewer(key) ==
    /\ HasRecord(key)
    /\ StoredRecord(key).last_sync # NoTime
    /\ LocalMtime(key) <= StoredRecord(key).last_sync

AllNotNewer ==
    /\ RecordKeys(before.project_data) = FoundPairs
    /\ \A key \in FoundPairs : NotNewer(key)

\* C2: a pair present locally and in subtitles.json whose file is not newer
\* than the stored last_sync gets no action at all, and a run in which every
\* pair is so makes no remote call.
C2_NoActionWhenNotNewer ==
    (command = "sync" /\ pc # "idle") =>
        /\ \A key \in FoundPairs :
              NotNewer(key) =>
                  \A action \in {"upload", "update", "delete"} : Planned(action, key) = 0
        /\ AllNotNewer => (actions_to_perform = <<>> /\ log = <<>> /\ remote = before.remote)

C2_WitnessUnchangedProject ==
    /\ command = "sync"
    /\ pc = "done"
    /\ Cardinality(FoundPairs) = 2
    /\ AllNotNewer

Newer(key) ==
    /\ HasRecord(key)
    /\ StoredRecord(key).last_sync # NoTime
    /\ LocalMtime(key) > StoredRecord(key).last_sync

\* C3: a pair present locally and in subtitles.json whose file is strictly
\* newer than the stored last_sync gets exactly one update action, and the
\* update is called with the caption_id of the record: a usable id is tried
\* first by a direct update, a null id goes straight to the listing.
C3_OneUpdateWithStoredId ==
    (command = "sync" /\ pc # "idle") =>
        \A key \in FoundPairs :
            Newer(key) =>
                /\ Planned("update", key) = 1
                /\ Planned("upload", key) = 0
                /\ Planned("delete", key) = 0
                /\ \A k \in 1..done :
                      actions_to_perform[k] = Action("update", key[1], key[2]) =>
                          LET first == log[FirstEventOf(k)]
                              caption_id == StoredRecord(key).caption_id
                          IN  /\ EventsOf(k) # {}
                              /\ IF caption_id = None
                                 THEN first.op \in {"list", "cache_hit"}
                                 ELSE first.op = "update" /\ first.id = caption_id

C3_WitnessModifiedFileUpdated ==
    /\ command = "sync"
    /\ pc = "done"
    /\ \E key \in FoundPairs :
          /\ Newer(key)
          /\ StoredRecord(key).caption_id # None
          /\ \E j \in 1..Len(log) :
                /\ log[j].op = "update"
                /\ log[j].id = StoredRecord(key).caption_id
                /\ log[j].status = 200

\* C4: with deletes disallowed, a caption of status.json that has no local
\* file is never deleted remotely and is still in status.json after the run.
C4_RecordKeptWhenDeletesDisallowed ==
    (command = "sync_video" /\ ~allow_deletes /\ pc # "idle") =>
        \A k \in 1..Len(to_delete) :
            /\ \A j \in 1..Len(log) :
                  ~(log[j].op = "delete" /\ log[j].id = to_delete[k].caption_id)
            /\ to_delete[k].language \in StatusLanguages(status_json)

Refused ==
    /\ log # <<>>
    /\ log[1].op = "prompt"
    /\ log[1].status # 0
    /\ Lower(log[1].id) \notin {"y", "yes"}

DeleteEvents(caption_id) ==
    {j \in 1..Len(log) : log[j].op = "delete" /\ log[j].id = caption_id}

\* C5: with deletes allowed, a run that goes to execution calls the remote
\* delete exactly once, with the stored caption_id, for every record that has
\* no local file, and a record whose delete succeeded is not in the file
\* written at the end.
C5_DeleteCalledOnceWhenAllowed ==
    /\ (command = "sync" /\ pc = "done") =>
          \A k \in 1..Len(actions_to_perform) :
              LET a == actions_to_perform[k]
                  key == <<a.video_id, a.lang>>
                  deletes == {j \in EventsOf(k) : log[j].op = "delete"}
              IN  (HasRecord(key) /\ key \notin FoundPairs) =>
                      /\ Cardinality(deletes) = 1
                      /\ \A j \in deletes :
                            /\ log[j].id = StoredRecord(key).caption_id
                            /\ log[j].status = 200 => key \notin RecordKeys(subtitles_json)
    /\ (command = "sync_video" /\ allow_deletes /\ ~dry_run /\ ~Refused
            /\ pc \in {"done", "raised"}) =>
          \A k \in 1..Len(to_delete) :
              /\ Cardinality(DeleteEvents(to_delete[k].caption_id)) = 1
              /\ \A j \in DeleteEvents(to_delete[k].caption_id) :
                    (log[j].status = 200 /\ pc = "done") =>
                        to_delete[k].language \notin StatusLanguages(status_json)

\* C6: a refused quota confirmation for a plan of non-zero cost ends the run:
\* no insert, update or delete is called, the quota counter keeps its value,
\* the remote captions are unchanged and status.json is not rewritten.
C6_RefusalChangesNothing ==
    (command = "sync_video" /\ Refused) =>
        /\ \A j \in 1..Len(log) : log[j].op \notin MutationOps \cup {"write"}
        /\ QUOTA_USAGE = before.quota
        /\ remote = before.remote
        /\ status_json = before.status_json
        /\ done = 0

C6_WitnessRefused ==
    /\ command = "sync_video"
    /\ Refused
    /\ pc = "done"
    /\ to_upload # <<>>
    /\ to_update # <<>>

\* confirm_quota has been called and has returned
ConfirmCalled ==
    /\ command = "sync_video" /\ ~dry_run
    /\ pc \notin {"idle", "confirm"}
    /\ (to_upload # <<>> \/ to_update # <<>> \/ to_delete # <<>>)

Prompts == {j \in 1..Len(log) : log[j].op = "prompt"}

\* the cost of the plan from the static table, deletes counted when allowed
ProjectedCost ==
    Len(to_upload) * ACTION_COSTS["UPLOAD"] + Len(to_update) * ACTION_COSTS["UPDATE"]
        + (IF allow_deletes THEN Len(to_delete) * ACTION_COSTS["DELETE"] ELSE 0)

\* sync_project returned at line 122: nothing follows the prompt
Aborted == pc = "done" /\ (log = <<>> \/ log[Len(log)].op # "write")

\* C37: confirm_quota returns proceed without prompting exactly when the
\* projected cost is zero; otherwise it prompts once, for that cost, and returns
\* proceed only for the answers y or yes in any case.  sync_project counts the
\* deletes in the projected cost only when deletes are allowed.
C37_PromptExactlyForNonZeroCost ==
    ConfirmCalled =>
        /\ (ProjectedCost = 0) <=> (Prompts = {})
        /\ ProjectedCost = 0 => ~Aborted
        /\ Cardinality(Prompts) <= 1
        /\ \A j \in Prompts :
              /\ log[j].status = ProjectedCost
              /\ ~Aborted <=> log[j].id \in {"y", "Y", "yes", "Yes", "YES", "yEs", "yeS", "YEs", "yES", "YeS"}

\* a plan with allowed deletes was priced with them and went on after "Yes"
C37_WitnessProceededAfterYes ==
    /\ ConfirmCalled /\ allow_deletes /\ to_delete # <<>> /\ to_upload # <<>>
    /\ Prompts = {1} /\ log[1].id = "Yes"
    /\ pc = "done" /\ ~Aborted

\* a plan of disallowed deletes only costs nothing and is not prompted for
C37_WitnessDisallowedDeletesNotPrompted ==
    /\ ConfirmCalled /\ ~allow_deletes /\ to_delete # <<>>
    /\ ProjectedCost = 0 /\ Prompts = {}
    /\ pc = "done" /\ ~Aborted

\* C38: the reconciliation step (scan plus classification) of sync_project never
\* raises for a parsed subtitles.json, whatever its last_sync values (null,
\* timezone-naive or malformed) and whatever local files exist: it ends with
\* the pairs classified and the actions queued.
C38_ReconciliationNeverRaises ==
    (command = "sync" /\ pc # "idle") => pc # "raised"

\* the requests of the call that has just returned
Inserts == {j \in 1..Len(log) : log[j].op = "insert"}

\* C39: upload_caption with a language code that is not in the recognized list
\* only warns: one insert is requested with the normalized code, and the call
\* returns the remote's answer or raises the remote's error.
C39_UnrecognizedLanguageStillUploaded ==
    (command = "language" /\ last.fn = "upload"
            /\ ~validate_language_code(normalize_language_code(last.language))) =>
        /\ last.warned
        /\ Len(log) = 1 /\ Inserts = {1}
        /\ log[1].lang = normalize_language_code(last.language)
        /\ log[1].status = 200 => (last.raised = 0 /\ last.resp.id = log[1].id)
        /\ log[1].status # 200 => last.raised = log[1].status

\* an upload with the unknown code XX went through and the remote holds the track
C39_WitnessUnknownCodeInserted ==
    /\ command = "language" /\ last.fn = "upload" /\ last.language = "XX"
    /\ last.warned /\ last.raised = 0
    /\ \E k \in 1..Len(remote) : remote[k].id = last.resp.id /\ remote[k].language = "XX"

\* C40: normalize_language_code is idempotent: normalizing the result of
\* normalizing a code gives the same code, so the fallback upload of
\* update_caption, which normalizes the normalized code again, inserts the
\* language the update stage searched for.
C40_NormalizeIsIdempotent ==
    command = "language" =>
        /\ last.fn = "normalize_language_code" => last.again = last.resp
        /\ last.fn = "update" =>
              \A j \in Inserts : log[j].lang = normalize_language_code(last.language)

\* the fallback upload of an update for "es" inserted es-US, and a code was normalized twice
C40_WitnessFallbackInsertedRegionalCode ==
    /\ command = "language" /\ last.fn = "update" /\ last.language = "es"
    /\ Inserts # {} /\ \A j \in Inserts : log[j].lang = "es-US" /\ log[j].status = 200

C40_WitnessRegionalCodeNormalizedTwice ==
    /\ command = "language" /\ last.fn = "normalize_language_code"
    /\ last.language = "pt" /\ last.resp = "pt-BR" /\ last.again = "pt-BR"

FailedInPlan == pc = "raised" /\ log # <<>> /\ log[Len(log)].act > 0

\* C8: an action of the plan that fails is caught, the record of its pair
\* gets an error status, and the actions after it are still attempted.
C8_FailureCaughtPlanContinues ==
    /\ (command = "sync" /\ pc = "done") =>
          \A k \in 1..Len(actions_to_perform) :
              LET a == actions_to_perform[k]
              IN  /\ EventsOf(k) # {}
                  /\ log[LastEventOf(k)].status # 200 =>
                        subtitles_json[a.video_id].subtitles[a.lang].status
                            \in {"error: 404", "error: 500"}
    /\ command = "sync_video" => ~FailedInPlan

(***************************************************************************)
(* Properties of the quota meter                                           *)
(***************************************************************************)
RemoteOps == {"list", "insert", "update", "delete"}

\* the static cost of the remote calls of `events` that succeeded
RECURSIVE CostOfSuccessfulCalls(_)
CostOfSuccessfulCalls(events) ==
    IF events = <<>> THEN 0
    ELSE (IF Head(events).op \in RemoteOps /\ Head(events).status = 200
          THEN QUOTA_COSTS["captions." \o Head(events).op] ELSE 0)
         + CostOfSuccessfulCalls(Tail(events))

\* C12: the quota counter grows by the static cost of every remote call
\* (captions.insert, update, delete, uncached list) that succeeded, once, and
\* by nothing for a call that failed: after a direct call, and at every point
\* of a sync run, the growth equals the cost of the successful calls made.
C12_EverySuccessfulCallCharged ==
    /\ (command = "process" /\ last.fn # "none") =>
          QUOTA_USAGE = last.quota_before + CostOfSuccessfulCalls(log)
    /\ (command \in {"sync", "sync_video"} /\ pc # "idle") =>
          QUOTA_USAGE = before.quota + CostOfSuccessfulCalls(log)

\* the static cost of an operation name: zero when the table has no such name
StaticCost(api_call_name) ==
    IF api_call_name \in DOMAIN QUOTA_COSTS THEN QUOTA_COSTS[api_call_name] ELSE 0

RECURSIVE SumOfStaticCosts(_)
SumOfStaticCosts(events) ==
    IF events = <<>> THEN 0
    ELSE StaticCost(Head(events).id) + SumOfStaticCosts(Tail(events))

\* C13: within a session the quota counter always equals the sum of the
\* static costs of the names passed to increment_quota so far, a name that
\* is not in the table counting for zero, and no step makes it smaller.
C13_LedgerIsMonotoneSum ==
    /\ [](command = "quota" => QUOTA_USAGE = SumOfStaticCosts(log))
    /\ [][QUOTA_USAGE' >= QUOTA_USAGE]_vars

C13_WitnessKnownAndUnknownNames ==
    /\ command = "quota"
    /\ \E i, j \in 1..Len(log) :
          i < j /\ log[i].id = "captions.insert" /\ log[j].id = "videos.list"
    /\ QUOTA_USAGE >= 400

(***************************************************************************)
(* Properties of the response cache                                        *)
(***************************************************************************)
\* C14: the key generate_cache_key computes from a name and keyword arguments
\* is the key it computes from the same name and the same name/value pairs
\* passed in any other order.
C14_KeyIsOrderIndependent ==
    last.fn = "generate_cache_key" =>
        \A other \in Perms({last.kwargs[i] : i \in 1..Len(last.kwargs)}) :
            generate_cache_key(last.function_name, other) = last.result

C14_WitnessThreeArgumentsOutOfOrder ==
    /\ last.fn = "generate_cache_key"
    /\ Len(last.kwargs) = 3
    /\ last.kwargs[1][1] = "video_id" /\ last.kwargs[2][1] = "part"

LastIsGet == last.fn = "get_from_cache"

StoredEntry == cache[last.key]

\* C15: get_from_cache never returns the payload of a well-formed entry whose
\* age at the time of the call exceeds CACHE_DURATION: it returns None.
C15_ExpiredEntryIsAbsent ==
    (LastIsGet /\ last.key \in DOMAIN cache /\ ~IsCorrupt(StoredEntry)
            /\ last.at - StoredEntry.timestamp > CACHE_DURATION) =>
        last.result = Null

C15_WitnessExpiredAfterSave ==
    /\ LastIsGet /\ last.key \in DOMAIN cache /\ ~IsCorrupt(StoredEntry)
    /\ DictHas(log, last.key)
    /\ DictGet(log, last.key).outcome = "written"
    /\ StoredEntry.timestamp = DictGet(log, last.key).at
    /\ last.at - StoredEntry.timestamp > CACHE_DURATION
    /\ last.result = Null
    /\ StoredEntry.data.items # <<>>

EntryOf(store, key) == IF key \in DOMAIN store THEN store[key] ELSE Null

\* the call that has just returned is a get_from_cache that missed
GetMissed == LastIsGet /\ last.at = now /\ last.result = Null

\* C36: get_from_cache never modifies the cache store.  A step in which
\* get_from_cache returns leaves every stored entry exactly as it was, whether
\* it hit or missed on an expired, missing or corrupted entry, and a step that
\* changes the entry of a key is a save_to_cache for that key.
C36_GetFromCacheLeavesStoreAlone ==
    [][/\ (last' # last /\ last'.fn = "get_from_cache") => cache' = cache
       /\ \A key \in CacheKeys :
            EntryOf(cache', key) # EntryOf(cache, key) =>
                last'.fn = "save_to_cache" /\ last'.key = key]_vars

\* a read has missed on an expired entry that is still stored, after an earlier
\* read of the same entry
C36_WitnessExpiredEntryStillStored ==
    /\ command = "cache" /\ GetMissed
    /\ last.key \in DOMAIN cache /\ ~IsCorrupt(StoredEntry)
    /\ last.at - StoredEntry.timestamp > CACHE_DURATION
    /\ StoredEntry.data.items # <<>>

\* a read has missed on a damaged cache file that is still stored
C36_WitnessCorruptEntryStillStored ==
    /\ command = "cache" /\ GetMissed
    /\ last.key \in DOMAIN cache /\ IsCorrupt(StoredEntry)

LatestSave == DictGet(log, last.key)

C17_CorruptEntryIsAbsent ==
    (LastIsGet /\ last.key \in DOMAIN cache /\ IsCorrupt(StoredEntry)) =>
        last.result = Null

\* what an uncached listing would have answered to the last call
RemoteItemsBefore == SelectVideo(last.remote_before, last.video_id)

\* C18: answering from the cache changes no outcome: when the by-language
\* search of update_caption is answered from a fresh cache entry, the caption
\* it chooses (or the absence of one) is the one a listing fetched from the
\* remote would have given.
C18_CachedSearchChoosesSameTarget ==
    (LastIsUpdate /\ \E j \in 1..Len(log) : log[j].op = "cache_hit") =>
        FirstByLanguage(SeenItems, normalize_language_code(last.language))
            = FirstByLanguage(RemoteItemsBefore, normalize_language_code(last.language))

(***************************************************************************)
(* Properties of the scanner                                               *)
(***************************************************************************)
\* the pair a file stands for under the two naming conventions:
\* <root>/<videoId>/<language>.srt and <root>/<videoId>_<language>.srt, the
\* language being what follows the last underscore
IsNested(path) == path.dir # ROOT
IsFlat(path) == path.dir = ROOT /\ Len(path.stem) >= 2
NestedPair(path) == <<path.dir, Join(path.stem)>>
FlatPair(path) ==
    <<Join(SubSeq(path.stem, 1, Len(path.stem) - 1)), path.stem[Len(path.stem)]>>

ScannedPath(key) == DictGet(before.local_files, key)

ActionsFor(key) ==
    {k \in 1..Len(actions_to_perform) :
        actions_to_perform[k].video_id = key[1] /\ actions_to_perform[k].lang = key[2]}

\* C19: when a pair of a known video has a nested file and a flat file, the
\* scanner maps the pair to the nested file whatever the order of the walk,
\* and the flat file is dropped without an error: it is the path of no
\* entry of the mapping and the pair gets at most one action.
C19_NestedFileWins ==
    (command = "sync" /\ pc # "idle") =>
        \A nested \in DOMAIN tree, flat \in DOMAIN tree :
            (IsNested(nested) /\ IsFlat(flat)
                    /\ nested.dir \in DOMAIN before.project_data
                    /\ NestedPair(nested) = FlatPair(flat)) =>
                /\ DictHas(before.local_files, NestedPair(nested))
                /\ ScannedPath(NestedPair(nested)) = nested
                /\ Cardinality(ActionsFor(NestedPair(nested))) <= 1
                /\ \A i \in 1..Len(before.local_files) : before.local_files[i].value # flat

C19_WitnessBothConventions ==
    /\ command = "sync" /\ pc = "done"
    /\ NestedEn \in DOMAIN tree /\ FlatEn \in DOMAIN tree
    /\ DictHas(before.local_files, <<"v1", "en">>)
    /\ ScannedPath(<<"v1", "en">>) = NestedEn
    /\ Cardinality(ActionsFor(<<"v1", "en">>)) = 1
    /\ \E j \in 1..Len(log) : log[j].op = "insert" /\ log[j].status = 200

\* C20: a flat file is split at its last underscore: when the part before it
\* is a known video and no nested file stands for the same pair, the scanner
\* maps (that video, the part after it) to the file.
C20_FlatNameSplitAtLastUnderscore ==
    (command = "sync" /\ pc # "idle") =>
        \A flat \in DOMAIN tree :
            (IsFlat(flat) /\ FlatPair(flat)[1] \in DOMAIN before.project_data
                    /\ \A nested \in DOMAIN tree :
                          IsNested(nested) => NestedPair(nested) # FlatPair(flat)) =>
                /\ DictHas(before.local_files, FlatPair(flat))
                /\ ScannedPath(FlatPair(flat)) = flat

\* the flat files the naming convention rejects: no underscore in the name, or
\* a video id (what precedes the last underscore) that is no key of subtitles.json
Malformed(flat) ==
    /\ flat.dir = ROOT
    /\ (Len(flat.stem) < 2 \/ FlatPair(flat)[1] \notin DOMAIN before.project_data)

\* the records of the run that point at the file
RecordsAt(path) ==
    {key \in RecordKeys(project_data) :
        project_data[key[1]].subtitles[key[2]].local_path = path}

\* C21: a flat file of the project directory whose name has no underscore, or
\* whose video id is no key of subtitles.json, is skipped: it is the path of
\* no entry of the scanner's mapping and no record points at it.
C21_MalformedFlatFileSkipped ==
    (command = "sync" /\ pc # "idle") =>
        \A flat \in DOMAIN tree :
            Malformed(flat) =>
                /\ \A i \in 1..Len(before.local_files) : before.local_files[i].value # flat
                /\ RecordsAt(flat) = {}

(***************************************************************************)
(* Properties of the project state file                                    *)
(***************************************************************************)
DeletedRemotely(caption_id) == \E j \in DeleteEvents(caption_id) : log[j].status = 200

\* project_handler: the run rewrote status.json
StatusWritten == \E j \in 1..Len(log) : log[j].op = "write"

\* C22: a record leaves the project state only after a remote delete of its
\* caption id succeeded: a record read at the start of a run whose delete was
\* not attempted, or failed, is still in the file the run writes at its end
\* (subtitles.json of file_handler, status.json of project_handler).
C22_RecordRemovedOnlyAfterDelete ==
    /\ (command = "sync" /\ pc = "done") =>
          \A key \in RecordKeys(before.project_data) :
              ~DeletedRemotely(StoredRecord(key).caption_id) =>
                  key \in RecordKeys(subtitles_json)
    /\ (command = "sync_video" /\ pc = "done" /\ StatusWritten) =>
          \A k \in 1..Len(before.status_json.captions) :
              ~DeletedRemotely(before.status_json.captions[k].caption_id) =>
                  before.status_json.captions[k].language \in StatusLanguages(status_json)

\* C23: in every subtitles.json that create_project and the sync runs after
\* it write, no two caption records of one video have the same normalized
\* language code.
C23_OneRecordPerNormalizedLanguage ==
    (command = "sync" /\ pc # "new") =>
        \A v \in DOMAIN subtitles_json :
            \A l1, l2 \in DOMAIN subtitles_json[v].subtitles :
                l1 # l2 => normalize_language_code(l1) # normalize_language_code(l2)

\* every action of the plan of the file_handler run raised
EveryActionFailed ==
    /\ actions_to_perform # <<>>
    /\ \A k \in 1..Len(actions_to_perform) :
          LET a == actions_to_perform[k]
          IN  /\ a.lang \in DOMAIN project_data[a.video_id].subtitles
              /\ project_data[a.video_id].subtitles[a.lang].status \in ErrorStatuses

Exited == command = "cli" /\ pc = "exited"

\* the errors the exit-code rule names
NamedErrors == InputErrors \cup {"HttpError", "configuration"}

SmartUploadEnded == Exited /\ last.argv # Null /\ last.argv.command = "smart-upload"

\* the smart-upload went on to its uploads: the service was built, the quota
\* confirmation was given and the run is no dry run
WentOn == last.cause \in {"returned", "HttpError"} /\ ~last.argv.dry_run

\* what the command asks of a file, and of the list
WellFormed(file) ==
    /\ file.exists /\ file.readable
    /\ Len(file.stem) >= 2
    /\ ParsedVideoId(file) # "" /\ ParsedLanguage(file) # ""

AllValid(file_paths) ==
    /\ \A k \in 1..Len(file_paths) : WellFormed(file_paths[k])
    /\ \A k \in 1..Len(file_paths) : ParsedVideoId(file_paths[k]) = ParsedVideoId(file_paths[1])

\* the captions.insert calls made for the k-th file
InsertsOf(k) == {j \in 1..Len(log) : log[j].op = "insert" /\ log[j].act = k}

InsertsAsParsed(k) ==
    \A j \in InsertsOf(k) :
        /\ log[j].vid = ParsedVideoId(last.file_paths[k])
        /\ log[j].lang = normalize_language_code(ParsedLanguage(last.file_paths[k]))

FailedUploads == {k \in 1..Len(last.file_paths) : \E j \in InsertsOf(k) : log[j].status # 200}

BatchEnded == command = "batch" /\ pc \in {"done", "raised"} /\ last.exists

\* the operation a cell of the action column asks for, None if it asks for none
OperationOf(action) ==
    IF action = NaN THEN None
    ELSE CASE Upper(Strip(action)) = "UPLOAD" -> "upload_caption"
           [] Upper(Strip(action)) = "UPDATE" -> "update_caption"
           [] Upper(Strip(action)) = "DELETE" -> "delete_caption"
           [] OTHER -> None

\* the calls the rows of the file ask for, in the order of the rows
RECURSIVE ExpectedCalls(_)
ExpectedCalls(rows) ==
    IF rows = <<>> THEN <<>>
    ELSE LET row == Head(rows)
             op == OperationOf(row.action)
         IN  (IF op = None THEN <<>>
              ELSE <<[op |-> op, vid |-> row.video_id, lang |-> Str(row.language),
                      id |-> CASE op = "upload_caption" -> None
                               [] op = "update_caption" -> row.caption_id
                               [] OTHER -> Str(row.caption_id)]>>)
             \o ExpectedCalls(Tail(rows))

\* the calls process_csv_batch made, in their order
RECURSIVE CallsMade(_)
CallsMade(events) ==
    IF events = <<>> THEN <<>>
    ELSE (IF Head(events).op \in {"upload_caption", "update_caption", "delete_caption"}
          THEN <<[op |-> Head(events).op, vid |-> Head(events).vid, lang |-> Head(events).lang,
                  id |-> Head(events).id]>>
          ELSE <<>>)
         \o CallsMade(Tail(events))

AfterRun == calls > 0 /\ pc # "idle"

\* the plan of the run: file_handler's actions_to_perform, project_handler's
\* to_upload, to_update and to_delete
PlanIsEmpty ==
    IF command = "sync" THEN actions_to_perform = <<>>
    ELSE to_upload = <<>> /\ to_update = <<>> /\ to_delete = <<>>

\* C28: a run of sync_project that follows a run in which every action
\* succeeded, with no local file changed in between, has an empty plan and
\* makes no remote call.
C28_NothingToDoAfterSuccessfulRun ==
    (AfterRun /\ last.succeeded /\ last.edited = {}) => (PlanIsEmpty /\ log = <<>>)

\* the file of the pair, as the scan of the run under way found it
FilePresent(key) == DictHas(before.local_files, key)

\* the records the run under way loaded that hold no last_sync
NeverSynced ==
    {key \in RecordKeys(before.project_data) :
        before.project_data[key[1]].subtitles[key[2]].last_sync = NoTime}

\* C29: a record without last_sync whose file is present gets an update in
\* the plan of sync_project, whatever the modification time of the file; and
\* every record create_project writes has no last_sync and the status synced.
C29_NullLastSyncAlwaysStale ==
    /\ [](command = "sync" /\ pc \in {"exec", "done"} =>
            \A key \in NeverSynced :
                FilePresent(key) =>
                    \E k \in 1..Len(actions_to_perform) :
                        actions_to_perform[k] = Action("update", key[1], key[2]))
    /\ [][pc = "new" /\ pc' = "idle" =>
            \A key \in RecordKeys(subtitles_json') :
                /\ subtitles_json'[key[1]].subtitles[key[2]].last_sync = NoTime
                /\ subtitles_json'[key[1]].subtitles[key[2]].status = "synced"]_vars

\* a record written by create_project, its file last modified before the
\* project was created, is updated by the first run of sync_project
C29_WitnessCreatedRecordUpdated ==
    /\ command = "sync" /\ pc = "done" /\ calls = 0
    /\ <<"v1", "en">> \in NeverSynced
    /\ before.project_data["v1"].subtitles["en"].caption_id = "c1"
    /\ FilePresent(<<"v1", "en">>)
    /\ tree[NestedEn] = 0
    /\ actions_to_perform = <<Action("update", "v1", "en")>>
    /\ \E j \in 1..Len(log) : log[j].op = "update" /\ log[j].status = 200

\* the k-th action of a run raised: the last request made for it failed
ActionRaised(events, k) ==
    LET js == {j \in 1..Len(events) : events[j].act = k}
    IN  /\ js # {}
        /\ events[CHOOSE j \in js : \A i \in js : i <= j].status # 200

\* the pairs whose action raised in a run of plan `plan` that made `events`
FailedPairs(plan, events) ==
    {<<plan[k].video_id, plan[k].lang>> : k \in {i \in 1..Len(plan) : ActionRaised(events, i)}}

\* the record of `key` holds the caption id and the last_sync it had in
\* `loaded`; none of either when `loaded` had no record of it
KeepsPrevious(pd, loaded, key) ==
    LET sub_info == pd[key[1]].subtitles[key[2]]
    IN  IF key \in RecordKeys(loaded)
        THEN /\ sub_info.caption_id = loaded[key[1]].subtitles[key[2]].caption_id
             /\ sub_info.last_sync = loaded[key[1]].subtitles[key[2]].last_sync
        ELSE sub_info.caption_id = None /\ sub_info.last_sync = NoTime

\* C30: the record sync_project writes for a pair whose upload, update or
\* delete failed holds an error status with the caption id and the last_sync
\* it had before the run (none for a failed upload); and the next run, on
\* the same local files, plans an action for that pair again.
C30_FailedActionRetriedByNextRun ==
    command = "sync" =>
        /\ pc = "done" =>
              \A key \in FailedPairs(actions_to_perform, log) :
                  /\ key \in RecordKeys(subtitles_json)
                  /\ subtitles_json[key[1]].subtitles[key[2]].status \in ErrorStatuses
                  /\ KeepsPrevious(subtitles_json, before.project_data, key)
        /\ (AfterRun /\ last.edited = {}) =>
              \A key \in FailedPairs(last.plan, last.log) :
                  \E k \in 1..Len(actions_to_perform) :
                      /\ actions_to_perform[k].video_id = key[1]
                      /\ actions_to_perform[k].lang = key[2]

\* an update that failed is made again, and succeeds, in the next run
C30_WitnessFailedUpdateRetried ==
    /\ command = "sync" /\ AfterRun /\ pc = "done" /\ last.edited = {}
    /\ last.plan = <<Action("update", "v1", "en")>>
    /\ FailedPairs(last.plan, last.log) = {<<"v1", "en">>}
    /\ last.subtitles_json["v1"].subtitles["en"].last_sync = 0
    /\ last.subtitles_json["v1"].subtitles["en"].status \in ErrorStatuses
    /\ actions_to_perform = <<Action("update", "v1", "en")>>
    /\ FailedPairs(actions_to_perform, log) = {}
    /\ subtitles_json["v1"].subtitles["en"].status = "synced"

(***************************************************************************)
(* Properties of the records written after an action                       *)
(***************************************************************************)
\* the upload and update actions of the plan that returned
Succeeded ==
    {k \in 1..Len(actions_to_perform) :
        /\ actions_to_perform[k].action \in {"upload", "update"}
        /\ EventsOf(k) # {}
        /\ log[LastEventOf(k)].status = 200}

\* the id of the caption the k-th action wrote: the one of its last request
WrittenId(k) == log[LastEventOf(k)].id

\* C31: the record sync_project writes for a pair whose upload or update
\* succeeded has the status synced, a last_sync, the remote's last_updated
\* and the id of the caption that was written: the one the insert returned,
\* or the one the update reached, directly, by language or by a fresh upload.
C31_RecordOfSuccessfulActionHoldsWrittenCaption ==
    (command = "sync" /\ pc = "done") =>
        \A k \in Succeeded :
            LET a == actions_to_perform[k]
                sub_info == subtitles_json[a.video_id].subtitles[a.lang]
            IN  /\ sub_info.status = "synced"
                /\ sub_info.last_sync # NoTime
                /\ sub_info.last_updated # NoTime
                /\ sub_info.caption_id = WrittenId(k)

(***************************************************************************)
(* Properties of one update_caption call                                   *)
(***************************************************************************)
\* the requests of the last call, in their order
RECURSIVE RequestsOf(_, _)
RequestsOf(events, k) ==
    IF events = <<>> THEN <<>>
    ELSE (IF Head(events).act = k THEN <<Head(events)>> ELSE <<>>) \o RequestsOf(Tail(events), k)

LastRequests == RequestsOf(log, calls)

Made(op) == {j \in 1..Len(LastRequests) : LastRequests[j].op = op}

Mutations ==
    {j \in 1..Len(LastRequests) :
        LastRequests[j].op \in {"insert", "update"} /\ LastRequests[j].status = 200}

\* C32: a call of update_caption ends after at most two update attempts, one
\* listing of the captions and one insert, at most one of which changed the
\* remote.
C32_UpdateCaptionBoundedAttempts ==
    LastIsUpdate =>
        /\ Cardinality(Made("update")) <= 2
        /\ Cardinality(Made("list")) <= 1
        /\ Cardinality(Made("insert")) <= 1
        /\ Cardinality(Mutations) <= 1

\* the longest call: direct update (404), listing, update of the caption
\* found (error), fresh upload
C32_WitnessEveryStageTried ==
    /\ LastIsUpdate
    /\ Cardinality(Made("update")) = 2
    /\ Cardinality(Made("list")) = 1
    /\ Cardinality(Made("insert")) = 1
    /\ Cardinality(Mutations) = 1
    /\ last.raised = 0

\* the by-language stage of the last call failed: its listing, or the
\* update that followed its search
ListingFailed == \E j \in Made("list") : LastRequests[j].status # 200

SearchedUpdateFailed ==
    \E j \in Made("update") :
        /\ LastRequests[j].status # 200
        /\ \E i \in 1..(j - 1) : LastRequests[i].op \in {"list", "cache_hit"}

\* C33: when the listing of the by-language stage fails, or the update of
\* the caption it found fails with any status, update_caption makes exactly
\* one insert for the normalized language, as its last request, and returns
\* what the insert returned or raises what it raised.
C33_ByLanguageFailureEndsInFreshUpload ==
    (LastIsUpdate /\ (ListingFailed \/ SearchedUpdateFailed)) =>
        LET final == LastRequests[Len(LastRequests)]
        IN  /\ Cardinality(Made("insert")) = 1
            /\ final.op = "insert"
            /\ final.vid = last.video_id
            /\ final.lang = normalize_language_code(last.language)
            /\ final.status = 200 => (last.raised = 0 /\ last.resp.id = final.id)
            /\ final.status # 200 => last.raised = final.status

C33_WitnessUploadAfterFailedListing ==
    /\ LastIsUpdate
    /\ ListingFailed
    /\ Cardinality(Made("insert")) = 1
    /\ last.raised = 0
    /\ last.resp.id = "n1"

(***************************************************************************)
(* Properties of the plan                                                  *)
(***************************************************************************)
\* project_handler: the languages of the plan, one entry per planned action
PlannedLanguages == to_upload \o to_update \o [k \in 1..Len(to_delete) |-> to_delete[k].language]

\* C34: the plan of a run holds at most one action for a pair (video id,
\* language), and every action of it is for a pair that has a local file of a
\* known video or a record: none for a pair with neither, none for a file
\* whose video id subtitles.json does not hold.
C34_OneActionPerExistingPair ==
    /\ (command = "sync" /\ pc # "idle") =>
          /\ \A i, j \in 1..Len(actions_to_perform) :
                (/\ actions_to_perform[i].video_id = actions_to_perform[j].video_id
                 /\ actions_to_perform[i].lang = actions_to_perform[j].lang) => i = j
          /\ \A k \in 1..Len(actions_to_perform) :
                LET key == <<actions_to_perform[k].video_id, actions_to_perform[k].lang>>
                IN  /\ key[1] \in DOMAIN before.project_data
                    /\ HasRecord(key) \/ key \in FoundPairs
    /\ (command = "sync_video" /\ pc # "idle") =>
          /\ \A i, j \in 1..Len(PlannedLanguages) :
                PlannedLanguages[i] = PlannedLanguages[j] => i = j
          /\ \A k \in 1..Len(PlannedLanguages) :
                \/ PlannedLanguages[k] \in subtitles_dir
                \/ PlannedLanguages[k] \in StatusLanguages(before.status_json)

\* a plan of an update and a delete, beside a file of an unknown video
C34_WitnessTwoPairsOneUnknownVideo ==
    /\ command = "sync" /\ pc = "done"
    /\ [dir |-> ROOT, stem |-> <<"v9", "en">>] \in DOMAIN tree
    /\ Len(actions_to_perform) = 2
    /\ \E k \in 1..2 : actions_to_perform[k].action = "update"
    /\ \E k \in 1..2 : actions_to_perform[k].action = "delete"

(***************************************************************************)
(* Properties of the cached lookups                                        *)
(***************************************************************************)
\* the cache key of the last lookup
LookupKey ==
    IF last.fn = "list_captions" THEN ListKey("v1")
    ELSE generate_cache_key("get_channel_videos", <<<<"channel_id", "ch1">>>>)

\* when the last lookup started, the cache held a fresh entry for it
FreshEntry ==
    /\ LookupKey \in DOMAIN last.cache_before
    /\ ~IsCorrupt(last.cache_before[LookupKey])
    /\ last.at - last.cache_before[LookupKey].timestamp <= CACHE_DURATION

\* C35: a lookup (list_captions, get_channel_videos) for which the cache
\* holds a fresh entry, as it does within the freshness window of an earlier
\* lookup that succeeded with the same arguments, returns the stored result
\* without a request to the remote and without spending quota, also when the
\* stored result is an empty list.
C35_FreshEntryAnswersWithoutRemote ==
    (command = "lookup" /\ last.fn # "none" /\ FreshEntry) =>
        /\ \A j \in 1..Len(log) : log[j].op = "cache_hit"
        /\ QUOTA_USAGE = last.quota_before
        /\ last.resp = last.cache_before[LookupKey].data

====
